---- MODULE Spec2Model ----
(***************************************************************************)
(* Verification model of SolSniper:                                        *)
(*   app/tasks/analyzer.py  (scan_new_token and its helpers)               *)
(*   app/tasks/listener.py  (listen_for_new_tokens, WebSocket + polling)   *)
(*   app/tasks/price_bot.py (price_updater and its helpers)                *)
(*   app/tasks/wallet_discovery.py, app/routers/discovery.py               *)
(*                          (run_discovery, scheduled and manual)          *)
(*   app/models.py          (the tables)                                   *)
(*                                                                         *)
(* Granularity: one action per stretch of coroutine code between two       *)
(* awaits (asyncio runs such a stretch without interleaving).  Time is in  *)
(* whole seconds.  Addresses, signatures and wallets are small integers;   *)
(* 0 stands for Python's None / "" / missing key.                          *)
(***************************************************************************)
EXTENDS FiniteSets, Integers, Sequences, TLC

VARIABLES
    tokens,            \* rows of table "tokens" in insertion order
    signals,           \* rows of table "signals" in insertion order
    tracked_wallets,   \* table "tracked_wallets": address -> status
    scan,              \* in-flight scan_new_token coroutine of each scanner
    lpc,               \* position of the listen_for_new_tokens task
    cur,               \* listener locals: message / signature being handled
    page,              \* polling: sig_infos of the current page not yet visited
    seen_signatures,   \* polling: local set seen_signatures
    seen_old,          \* number of seen signatures the provider no longer lists
    head,              \* chain: newest signature the provider has served
    event,             \* streaming: the log bundle being handled or last handled
    now,               \* wall clock (seconds)
    ppc,               \* position of the price_updater task
    sweep,             \* price_updater locals: now, active_tokens, pair_data
    discovered_tokens, \* rows of table "discovered_tokens"
    early_buyers,      \* rows of table "early_buyers"
    smart_wallet_candidates, \* rows of table "smart_wallet_candidates"
    run,               \* in-flight run_discovery coroutine of each runner
    seeded             \* run_discovery_background has started its first run

vars == <<tokens, signals, tracked_wallets, scan, lpc, cur, page,
          seen_signatures, seen_old, head, event, now, ppc, sweep, discovered_tokens,
          early_buyers, smart_wallet_candidates, run, seeded>>

listenerVars == <<scan, lpc, cur, page, seen_signatures, seen_old, head, event>>
priceVars == <<ppc, sweep>>
discoveryVars ==
    <<discovered_tokens, early_buyers, smart_wallet_candidates, run, seeded>>

(***************************************************************************)
(* Bounds of the model.                                                    *)
(***************************************************************************)
NumTokens == 2
NumWallets == 7
NumSigs == 4
MaxPage == 2
MaxDrift == 1
MaxTxs == 3

Addresses == 1..NumTokens
Wallets == 1..NumWallets
Signatures == 1..NumSigs
None == 0

(***************************************************************************)
(* Program constants.                                                      *)
(***************************************************************************)
MAX_AGE_SECONDS == 600
MIN_SMART_WALLETS == 2
BASE_CONFIDENCE == 50
CONFIDENCE_PER_WALLET == 10
MAX_CONFIDENCE == 100
SEEN_CAP == 5000
SEEN_KEEP == 2000
GRADUATED_MC == 50000
RUGGED_MC == 500
RUGGED_LIQUIDITY == 100
STALE_HOURS == 48
SECONDS_PER_HOUR == 3600
MIN_APPEARANCES == 2
DEFAULT_EARLY_BUYER_COUNT == 50
LAUNCH_MARKET_CAP == 5000
MIN_GAIN_MULTIPLE == 200
FIRST_RUN_MIN_GAIN == 100
LOOKBACK_DAYS == 7
SECONDS_PER_DAY == 86400
PUMP_LAUNCH_MC == 5000
OTHER_LAUNCH_MC == 10000

PUMP_SOURCES == {"PUMP_FUN", "PUMP_AMM", "PUMP"}

\* The two run_discovery coroutines that can be in flight in one process:
\* the one awaited by run_discovery_background and the one started as a
\* background task by POST /discovery/run.
Runners == {"scheduler", "manual"}

\* Wallets that are not on the roster at startup.
Strangers == {NumWallets + 1, NumWallets + 2}

\* The two scan_new_token coroutines that can be in flight against one
\* store: the one awaited by this process's listener task and the one of a
\* second application instance (another worker, or the old instance during
\* a restart) that received the same event.
Scanners == {"listener", "peer"}

Min(a, b) == IF a < b THEN a ELSE b

(***************************************************************************)
(* Helius Enhanced Transactions responses.                                 *)
(***************************************************************************)
Tx(payer, type, source, ts) ==
    [feePayer |-> payer, type |-> type, source |-> source, timestamp |-> ts]

Raised(kind) == [kind |-> kind, txs |-> <<>>]
TxList(txs) == [kind |-> "list", txs |-> txs]

\* _fetch_enhanced_transactions: a JSON list is returned as is, any other
\* JSON body is logged and becomes []; a timeout or an HTTP error status
\* raises.
FetchRaises(resp) == resp.kind \in {"timeout", "http_error"}
FetchedTxs(resp) == IF resp.kind = "list" THEN resp.txs ELSE <<>>

\* Ages of the oldest transaction around the limit of the age filter.
Ages == {MAX_AGE_SECONDS - 1, MAX_AGE_SECONDS, MAX_AGE_SECONDS + 1}

\* Responses the provider can give to the metadata fetch at time t
\* (newest transaction first).
MetaResponses(t) ==
    {Raised("timeout"), Raised("http_error"), Raised("not_list"), TxList(<<>>)}
    \cup {TxList(<<Tx(1, "TRANSFER", "SYSTEM_PROGRAM", t - a)>>) : a \in Ages}
    \cup {TxList(<<Tx(1, "SWAP", "PUMP_FUN", t - (MAX_AGE_SECONDS - 1)),
                   Tx(1, "TRANSFER", "SYSTEM_PROGRAM", t - (MAX_AGE_SECONDS + 1))>>),
          TxList(<<Tx(1, "SWAP", "PUMP_AMM", t - (MAX_AGE_SECONDS + 1)),
                   Tx(None, "TRANSFER", "SYSTEM_PROGRAM", None)>>)}

DasOutcomes == {"ok", "failed"}

\* The smaller choice of responses used where two scans race: a failed
\* fetch, a token just inside the age limit, one just outside.
RaceMetaResponses(t) ==
    {Raised("timeout"),
     TxList(<<Tx(1, "SWAP", "PUMP_FUN", t - MAX_AGE_SECONDS)>>),
     TxList(<<Tx(1, "SWAP", "PUMP_FUN", t - (MAX_AGE_SECONDS + 1))>>)}

\* Responses to the signer fetch: the first k wallets as fee payers (odd
\* ones by a SWAP, even ones by an untyped launch-venue transaction), then
\* a plain transfer of the next wallet and a transaction without fee payer.
SignerTxs(k) ==
    [i \in 1..(k + 2) |->
        IF i <= k
        THEN IF i % 2 = 1 THEN Tx(i, "SWAP", "JUPITER", 1)
                          ELSE Tx(i, "UNKNOWN", "PUMP_AMM", 1)
        ELSE IF i = k + 1
             THEN Tx(IF k < NumWallets THEN k + 1 ELSE 1,
                     "TRANSFER", "SYSTEM_PROGRAM", 1)
             ELSE Tx(None, "SWAP", "PUMP_FUN", 1)]

SignerResponses ==
    {Raised("timeout"), Raised("http_error"), Raised("not_list")}
    \cup {TxList(SignerTxs(k)) : k \in 0..NumWallets}

\* Smaller choice: one active signer (and the paused one), or two.
RaceSignerResponses == {TxList(SignerTxs(2)), TxList(SignerTxs(3))}

(***************************************************************************)
(* analyzer.py helpers.                                                    *)
(***************************************************************************)
NoMeta == [symbol |-> "", created_at |-> 0, dev_address |-> None,
           market_cap |-> 0, ok |-> FALSE]

\* Largest index of a launch-venue transaction: the first one met by
\* `for tx in reversed(txs)`; 0 when there is none.
RECURSIVE FirstPumpFromEnd(_, _)
FirstPumpFromEnd(txs, i) ==
    IF i = 0 THEN 0
    ELSE IF txs[i].source \in PUMP_SOURCES THEN i
    ELSE FirstPumpFromEnd(txs, i - 1)

\* Body of the try block of get_token_metadata, given the fetched list.
MetadataFrom(txs, das, t) ==
      LET n == Len(txs)
          p == FirstPumpFromEnd(txs, n)
          created0 == IF n > 0 /\ txs[n].timestamp # None
                      THEN txs[n].timestamp ELSE t
          dev0 == IF n > 0 THEN txs[n].feePayer ELSE None
          dev == IF p > 0 /\ txs[p].feePayer # None
                 THEN txs[p].feePayer ELSE dev0
          created == IF p > 0 /\ txs[p].timestamp # None
                     THEN txs[p].timestamp ELSE created0
      IN [symbol |-> IF das = "ok" THEN "das" ELSE "prefix",
          created_at |-> created, dev_address |-> dev,
          market_cap |-> 0, ok |-> TRUE]

\* Variant: a failed fetch is swallowed as in get_token_signers and the
\* defaults (created now, dev unknown) are returned.
get_token_metadata_swallow(resp, das, t) ==
    MetadataFrom(FetchedTxs(resp), das, t)

\* except httpx.TimeoutException / except Exception: return None
get_token_metadata(resp, das, t) ==
    IF FetchRaises(resp) THEN NoMeta
    ELSE MetadataFrom(FetchedTxs(resp), das, t)

get_token_signers(resp) ==
    IF FetchRaises(resp) THEN {}
    ELSE LET txs == FetchedTxs(resp)
         IN {txs[i].feePayer : i \in
               {j \in 1..Len(txs) :
                   /\ txs[j].feePayer # None
                   /\ \/ txs[j].type = "SWAP"
                      \/ txs[j].source \in PUMP_SOURCES}}

\* Variant: the status filter is missing.
MatchingAnyStatus(wallets, signers) == signers \cap DOMAIN wallets

\* select(TrackedWallet).where(address.in_(signers), status == "active")
MatchingWallets(wallets, signers) ==
    {w \in signers \cap DOMAIN wallets : wallets[w] = "active"}

\* Variant: the limit itself is already too old.
TooOldInclusive(t, created) == t - created >= MAX_AGE_SECONDS

\* age > timedelta(minutes=10)
TooOld(t, created) == t - created > MAX_AGE_SECONDS

\* Variant: the cap is missing.
ConfidenceUncapped(smart_wallet_count) ==
    BASE_CONFIDENCE + smart_wallet_count * CONFIDENCE_PER_WALLET

\* confidence = min(50 + smart_wallet_count * 10, 100)
Confidence(smart_wallet_count) ==
    Min(BASE_CONFIDENCE + smart_wallet_count * CONFIDENCE_PER_WALLET,
        MAX_CONFIDENCE)

(***************************************************************************)
(* Store: tables and the commit of a scan's transaction.                   *)
(***************************************************************************)
TokenRow(addr, meta) ==
    [contract_address |-> addr, symbol |-> meta.symbol,
     created_at |-> meta.created_at, dev_address |-> meta.dev_address,
     market_cap_at_scan |-> meta.market_cap, status |-> "bonding_curve"]

SignalRow(id, addr, count, confidence) ==
    [id |-> id, token_address |-> addr, smart_wallet_count |-> count,
     confidence_score |-> confidence, is_executed |-> FALSE]

TokensAt(rows, addr) == {i \in 1..Len(rows) : rows[i].contract_address = addr}
SignalsAt(rows, addr) == {i \in 1..Len(rows) : rows[i].token_address = addr}

\* Variant: the lookup does not use the address.
AnyTokenExists(rows, addr) == rows # <<>>

\* session.get(Token, token_address)
TokenExists(rows, addr) == TokensAt(rows, addr) # {}

\* Variant: contract_address is not a key.
NoPrimaryKey(rows, addr) == FALSE

\* Token.contract_address is the primary key: inserting a second row with
\* the same address raises IntegrityError at flush.
PrimaryKeyConflict(rows, addr) == TokensAt(rows, addr) # {}

\* Variant: the signal is written on its own, before the token insert is
\* tried, so a conflict on the token leaves the signal behind.
CommitSignalFirst(tokenRows, signalRows, addr, meta, count, confidence) ==
    [raised |-> PrimaryKeyConflict(tokenRows, addr),
     tokens |-> IF PrimaryKeyConflict(tokenRows, addr) THEN tokenRows
                ELSE Append(tokenRows, TokenRow(addr, meta)),
     signals |-> Append(signalRows,
                        SignalRow(Len(signalRows) + 1, addr, count, confidence))]

\* session.add(token); session.add(signal); session.commit(): one
\* transaction, tokens flushed before signals (foreign key order).  The
\* result is the new pair of tables, or the exception that rolls it back.
Commit(tokenRows, signalRows, addr, meta, count, confidence) ==
    IF PrimaryKeyConflict(tokenRows, addr)
    THEN [raised |-> TRUE, tokens |-> tokenRows, signals |-> signalRows]
    ELSE [raised |-> FALSE,
          tokens |-> Append(tokenRows, TokenRow(addr, meta)),
          signals |-> Append(signalRows,
                             SignalRow(Len(signalRows) + 1, addr, count,
                                       confidence))]

(***************************************************************************)
(* listener.py helpers.                                                    *)
(***************************************************************************)
PUMP_FUN_PROGRAM_ID == NumTokens + 1

\* A log line: the spelling of the creation marker it contains ("none" when
\* it has none) and the first word of the line that is 32..44 alphanumeric
\* characters after stripping punctuation (None when no word qualifies).
LogLine(marker, word) == [marker |-> marker, word |-> word]

\* Variant: the marker is matched in any letter case.
IsCreateLineAnyCase(line) ==
    line.marker \in {"Create", "create", "CREATE", "InitializeMint"}

\* "Create" in log or "create" in log or "InitializeMint" in log
IsCreateLine(line) == line.marker \in {"Create", "create", "InitializeMint"}
is_create(logs) == \E i \in 1..Len(logs) : IsCreateLine(logs[i])

RECURSIVE _extract_token_address_from_logs(_)
_extract_token_address_from_logs(logs) ==
    IF logs = <<>> THEN None
    ELSE IF Head(logs).marker \in {"Create", "create"} /\ Head(logs).word # None
         THEN Head(logs).word
         ELSE _extract_token_address_from_logs(Tail(logs))

\* Parsed getTransaction result.
Ix(type, mint) == [type |-> type, mint |-> mint]
ParsedTx(inner, top, keys) ==
    [kind |-> "result", inner |-> inner, top |-> top, accountKeys |-> keys]
NoTx(kind) == [kind |-> kind, inner |-> <<>>, top |-> <<>>, accountKeys |-> <<>>]

RECURSIVE FirstInitializeMint(_)
FirstInitializeMint(ixs) ==
    IF ixs = <<>> THEN None
    ELSE IF Head(ixs).type = "initializeMint" /\ Head(ixs).mint # None
         THEN Head(ixs).mint
         ELSE FirstInitializeMint(Tail(ixs))

\* Variant: the account at index 1 is returned whatever it is.
ExtractFromTxAnyKey(resp) ==
    IF resp.kind # "result" THEN None
    ELSE IF FirstInitializeMint(resp.inner) # None
         THEN FirstInitializeMint(resp.inner)
    ELSE IF FirstInitializeMint(resp.top) # None
         THEN FirstInitializeMint(resp.top)
    ELSE IF Len(resp.accountKeys) >= 3 /\ resp.accountKeys[2] # None
         THEN resp.accountKeys[2]
    ELSE None

_extract_token_from_tx(resp) ==
    IF resp.kind # "result" THEN None
    ELSE IF FirstInitializeMint(resp.inner) # None
         THEN FirstInitializeMint(resp.inner)
    ELSE IF FirstInitializeMint(resp.top) # None
         THEN FirstInitializeMint(resp.top)
    ELSE IF /\ Len(resp.accountKeys) >= 3
            /\ resp.accountKeys[2] # None
            /\ resp.accountKeys[2] # PUMP_FUN_PROGRAM_ID
         THEN resp.accountKeys[2]
    ELSE None

\* Responses of getTransaction the provider can give.
TxResponses(Mints) ==
    {NoTx("error"), NoTx("null")}
    \cup {ParsedTx(<<Ix("transfer", None), Ix("initializeMint", a)>>, <<>>, <<>>)
            : a \in Mints}
    \cup {ParsedTx(<<>>, <<Ix("initializeMint", a)>>, <<1, 1, 1>>) : a \in Mints}
    \cup {ParsedTx(<<>>, <<>>, <<1, a, PUMP_FUN_PROGRAM_ID>>) : a \in Mints}
    \cup {ParsedTx(<<>>, <<>>, <<1, PUMP_FUN_PROGRAM_ID, 1>>),
          ParsedTx(<<>>, <<>>, <<1, 1>>)}

\* logsNotification messages.  kind "text" is a frame that is not JSON.
WsMessage(logs, sig) == [kind |-> "json", logs |-> logs, signature |-> sig]
WsMessages(Mints) ==
    {[kind |-> "text", logs |-> <<>>, signature |-> None],
     WsMessage(<<>>, 1),
     WsMessage(<<LogLine("none", 1)>>, 1),
     WsMessage(<<LogLine("InitializeMint", 1)>>, None),
     WsMessage(<<LogLine("CREATE", 1)>>, 1)}
    \cup {WsMessage(<<LogLine("none", None), LogLine("Create", a)>>, 1)
            : a \in Mints}
    \cup {WsMessage(<<LogLine("create", None), LogLine("InitializeMint", 1)>>, 1)}

\* getSignaturesForAddress pages: up to MaxPage entries, newest first.
\* Signatures are numbered in chain order; signature 3 is a failed
\* transaction.  A page is the MaxPage newest signatures when the chain
\* head is at h.
SigInfo(sig, err) == [signature |-> sig, err |-> err]
ChainEntry(sig) == SigInfo(sig, IF sig = 3 THEN 1 ELSE None)
PageAt(h) == [i \in 1..Min(h, MaxPage) |-> ChainEntry(h + 1 - i)]

\* seen_signatures = set(list(seen_signatures)[-2000:]) once the set holds
\* more than 5000: the iteration order of a set of strings is arbitrary, so
\* any 2000 of its elements may be the ones kept.  The set is held as the
\* signatures of the modelled chain (seen) and the number of older ones
\* (old), which the provider never lists again and which are alike.
Truncations(seen, old) ==
    IF Cardinality(seen) + old > SEEN_CAP
    THEN {[seen |-> K, old |-> SEEN_KEEP - Cardinality(K)] :
             K \in {K \in SUBSET seen :
                       /\ Cardinality(K) <= SEEN_KEEP
                       /\ SEEN_KEEP - Cardinality(K) <= old}}
    ELSE {[seen |-> seen, old |-> old]}

\* Variant: the check against the seen set is missing.
RECURSIVE PollNextAgain(_, _)
PollNextAgain(p, seen) ==
    IF p = <<>> THEN [pc |-> "poll_sleep", cur |-> None, page |-> <<>>, seen |-> seen]
    ELSE IF Head(p).err # None
         THEN PollNextAgain(Tail(p), seen \cup {Head(p).signature})
    ELSE [pc |-> "poll_extract", cur |-> Head(p).signature, page |-> Tail(p),
          seen |-> seen \cup {Head(p).signature}]

\* The for loop over the page from its current position up to the next
\* await: entries already seen are skipped, a new entry is added to the
\* seen set, an errored one is skipped; the walk stops at the first entry
\* that has to be resolved, or at the end of the page.
RECURSIVE PollNext(_, _)
PollNext(p, seen) ==
    IF p = <<>> THEN [pc |-> "poll_sleep", cur |-> None, page |-> <<>>, seen |-> seen]
    ELSE IF Head(p).signature \in seen THEN PollNext(Tail(p), seen)
    ELSE IF Head(p).err # None
         THEN PollNext(Tail(p), seen \cup {Head(p).signature})
    ELSE [pc |-> "poll_extract", cur |-> Head(p).signature, page |-> Tail(p),
          seen |-> seen \cup {Head(p).signature}]

\* Variant: a closed connection is handled like a refused one.
OnWebsocketExitFallback(exc) ==
    CASE exc = "ConnectionClosed" -> "poll_fetch"
      [] exc = "InvalidURI" -> "poll_fetch"
      [] exc = "ConnectionRefused" -> "poll_fetch"
      [] OTHER -> "reconnect_sleep"

\* except clauses of listen_for_new_tokens: where the task goes when
\* _websocket_listener raises exc or returns ("CleanEnd").
OnWebsocketExit(exc) ==
    CASE exc = "ConnectionClosed" -> "reconnect_sleep"
      [] exc = "InvalidURI" -> "poll_fetch"
      [] exc = "ConnectionRefused" -> "poll_fetch"
      [] OTHER -> "reconnect_sleep"

\* Variant: the exception is not caught inside the loop and ends the task.
PollingErrorPropagates == "failed"

\* except Exception inside `while True` of _polling_listener.
OnPollingError == "poll_sleep"

\* Locals of one pass of `async for message in ws`: the markers found in
\* the bundle's log lines, the address read from the log text, the
\* bundle's signature, the address the resolver returned for it, and the
\* number of scan_new_token calls made for the bundle.
NoEvent ==
    [markers |-> {}, log_address |-> None, signature |-> None,
     resolved |-> None, calls |-> 0]
Received(m) ==
    [markers |-> {m.logs[i].marker : i \in 1..Len(m.logs)},
     log_address |-> _extract_token_address_from_logs(m.logs),
     signature |-> m.signature, resolved |-> None, calls |-> 0]
Resolved(ev, addr) == [ev EXCEPT !.resolved = addr]
Forwarded(ev) == [ev EXCEPT !.calls = @ + 1]

PollingPcs == {"poll_fetch", "poll_extract", "poll_scan", "poll_sleep"}
StreamingPcs == {"connect", "confirm", "subscribed", "ws_extract", "ws_scan",
                 "reconnect_sleep"}

(***************************************************************************)
(* price_bot.py helpers.                                                   *)
(***************************************************************************)
\* A DexScreener pair.  marketCap, fdv: 0 stands for a missing or null
\* value.  liquidity: the value of liquidity.usd, 0 when the liquidity
\* object or its usd value is missing, Null when "liquidity" itself is
\* null.
Null == -1
Pair(addr, marketCap, fdv, dexId, liquidity) ==
    [address |-> addr, marketCap |-> marketCap, fdv |-> fdv, dexId |-> dexId,
     liquidity |-> liquidity]
NoPair == Pair(None, 0, 0, "", 0)

\* pair.get("marketCap") or pair.get("fdv") or 0
PairMc(pair) == IF pair.marketCap # 0 THEN pair.marketCap ELSE pair.fdv

\* str.lower() on the venue names that occur.
Lower(dexId) ==
    CASE dexId = "Raydium" -> "raydium"
      [] dexId = "METEORA" -> "meteora"
      [] dexId = "PumpSwap" -> "pumpswap"
      [] OTHER -> dexId

graduated_dexes == {"raydium", "meteora", "orca", "jupiter"}

\* _fetch_token_data, one batch: the highest-MC pair per base token, the
\* earlier one on a tie; pairs without base token address are skipped.
RECURSIVE BestPairs(_, _)
BestPairs(pairs, result) ==
    IF pairs = <<>> THEN result
    ELSE LET pair == Head(pairs)
             token_addr == pair.address
         IN IF token_addr = None THEN BestPairs(Tail(pairs), result)
            ELSE IF result[token_addr] = NoPair
                    \/ PairMc(pair) > PairMc(result[token_addr])
            THEN BestPairs(Tail(pairs), [result EXCEPT ![token_addr] = pair])
            ELSE BestPairs(Tail(pairs), result)

\* A batch whose request fails contributes nothing (except Exception).
_fetch_token_data(resp) ==
    BestPairs(IF resp.kind = "list" THEN resp.pairs ELSE <<>>,
              [a \in Addresses |-> NoPair])

\* pair.get("liquidity", {}).get("usd", 0) raises AttributeError when
\* "liquidity" is null.
DetermineRaises(pair) == pair # NoPair /\ pair.liquidity = Null

\* Variant: a pair that meets no threshold puts the token back on the
\* bonding curve.
_determine_status_from_pair(pair, current_status) ==
    IF pair = NoPair THEN current_status
    ELSE IF PairMc(pair) < RUGGED_MC
            \/ (PairMc(pair) > 0 /\ pair.liquidity < RUGGED_LIQUIDITY)
         THEN "rugged"
         ELSE IF (Lower(pair.dexId) \in graduated_dexes
                    /\ PairMc(pair) >= GRADUATED_MC)
                 \/ PairMc(pair) >= GRADUATED_MC * 2
         THEN "graduated"
         ELSE "bonding_curve"

\* Variant: the venue-independent threshold is missing.
_determine_status_listed_only(pair, current_status) ==
    IF pair = NoPair THEN current_status
    ELSE IF PairMc(pair) < RUGGED_MC
            \/ (PairMc(pair) > 0 /\ pair.liquidity < RUGGED_LIQUIDITY)
         THEN "rugged"
         ELSE IF Lower(pair.dexId) \in graduated_dexes
                 /\ PairMc(pair) >= GRADUATED_MC
         THEN "graduated"
         ELSE current_status

_determine_status(pair, current_status) ==
    IF pair = NoPair THEN current_status
    ELSE LET mc == PairMc(pair)
             dex == Lower(pair.dexId)
             liquidity == pair.liquidity
         IN IF mc < RUGGED_MC \/ (mc > 0 /\ liquidity < RUGGED_LIQUIDITY)
            THEN "rugged"
            ELSE IF dex \in graduated_dexes /\ mc >= GRADUATED_MC
            THEN "graduated"
            ELSE IF mc >= GRADUATED_MC * 2
            THEN "graduated"
            ELSE current_status

\* Variant: every token is selected.
SweptAnyStatus(rows) == rows

\* select(Token).where(Token.status.in_([bonding_curve, graduated]))
Swept(rows) ==
    SelectSeq(rows, LAMBDA r : r.status \in {"bonding_curve", "graduated"})

\* Variant: the age is taken in whole hours.
FreshWholeHours(t, created_at) ==
    (t - created_at) \div SECONDS_PER_HOUR <= STALE_HOURS

\* age_hours <= STALE_HOURS
Fresh(t, created_at) == t - created_at <= STALE_HOURS * SECONDS_PER_HOUR

\* Variant: the market cap is written only with a change of status.
SweptTokenOnChange(token, pair) ==
    [token EXCEPT
       !.market_cap_at_scan =
           IF pair # NoPair /\ PairMc(pair) > 0
              /\ _determine_status(pair, token.status) # token.status
           THEN PairMc(pair) ELSE @,
       !.status = _determine_status(pair, @)]

\* The loop over active_tokens: the loaded object after its update.
SweptToken(token, pair) ==
    [token EXCEPT
       !.market_cap_at_scan = IF pair # NoPair /\ PairMc(pair) > 0
                              THEN PairMc(pair) ELSE @,
       !.status = _determine_status(pair, @)]

\* session.commit(): UPDATE of the changed attributes of each loaded
\* object, by primary key.
Flushed(rows, loaded, updated) ==
    [i \in DOMAIN rows |->
       IF \E k \in DOMAIN loaded :
             loaded[k].contract_address = rows[i].contract_address
       THEN LET k == CHOOSE k \in DOMAIN loaded :
                        loaded[k].contract_address = rows[i].contract_address
            IN [rows[i] EXCEPT
                  !.market_cap_at_scan =
                      IF updated[k].market_cap_at_scan # loaded[k].market_cap_at_scan
                      THEN updated[k].market_cap_at_scan ELSE @,
                  !.status =
                      IF updated[k].status # loaded[k].status
                      THEN updated[k].status ELSE @]
       ELSE rows[i]]

NoSweep == [now |-> 0, active_tokens |-> <<>>,
            pair_data |-> [a \in Addresses |-> NoPair]]

(***************************************************************************)
(* wallet_discovery.py helpers.                                            *)
(***************************************************************************)
\* txs.sort(key=lambda t: t.get("timestamp", 0)): a stable sort.  A
\* missing timestamp counts as 0; a null one makes the comparison raise
\* TypeError as soon as there are two transactions to compare.
SortRaises(txs) ==
    Len(txs) >= 2 /\ \E i \in 1..Len(txs) : txs[i].timestamp = Null

InsertLast(sorted, tx) ==
    LET k == Cardinality({i \in 1..Len(sorted) :
                             sorted[i].timestamp <= tx.timestamp})
    IN SubSeq(sorted, 1, k) \o <<tx>> \o SubSeq(sorted, k + 1, Len(sorted))

RECURSIVE SortedByTimestamp(_)
SortedByTimestamp(txs) ==
    IF txs = <<>> THEN <<>>
    ELSE InsertLast(SortedByTimestamp(SubSeq(txs, 1, Len(txs) - 1)),
                    txs[Len(txs)])

Buyer(tx) ==
    [wallet_address |-> tx.feePayer,
     entry_timestamp |-> IF tx.timestamp = Null THEN None ELSE tx.timestamp]

\* The loop of extract_early_buyers over the sorted transactions; buyers
\* is the dict in insertion order.
RECURSIVE CollectBuyers(_, _, _)
CollectBuyers(txs, buyers, limit) ==
    IF txs = <<>> THEN buyers
    ELSE LET tx == Head(txs)
             is_buy == tx.type = "SWAP" \/ tx.source \in PUMP_SOURCES
         IN IF tx.feePayer = None \/ ~is_buy
               \/ \E i \in 1..Len(buyers) :
                     buyers[i].wallet_address = tx.feePayer
            THEN CollectBuyers(Tail(txs), buyers, limit)
            ELSE IF Len(buyers) + 1 >= limit
            THEN Append(buyers, Buyer(tx))
            ELSE CollectBuyers(Tail(txs), Append(buyers, Buyer(tx)), limit)

\* extract_early_buyers: every exception (failed request, TypeError of the
\* sort) is caught inside and what was collected so far is returned.
extract_early_buyers(resp, limit) ==
    IF FetchRaises(resp) \/ SortRaises(FetchedTxs(resp)) THEN <<>>
    ELSE CollectBuyers(SortedByTimestamp(FetchedTxs(resp)), <<>>, limit)

\* A DexScreener pair as the winner search sees it.  marketCap, fdv,
\* pairCreatedAt: 0 stands for a missing or null value; pairCreatedAt is
\* in seconds.  symbol: NullSymbol when baseToken.symbol is null.
NullSymbol == "<null>"
CandidatePair(addr, marketCap, fdv, dexId, pairCreatedAt, symbol) ==
    [address |-> addr, marketCap |-> marketCap, fdv |-> fdv, dexId |-> dexId,
     pairCreatedAt |-> pairCreatedAt, symbol |-> symbol]

\* "pump" in dex.lower(), on the venue names that occur.
PumpVenues == {"pumpfun", "pumpswap"}

\* _estimate_gain is mc / launch_mc; the quotient is kept as its
\* denominator and compared and rounded exactly.
launch_mc(pair) ==
    IF Lower(pair.dexId) \in PumpVenues THEN PUMP_LAUNCH_MC ELSE OTHER_LAUNCH_MC

\* gain < min_gain, where the gain of a pair without market cap is 0.0.
GainBelow(pair, min_gain) ==
    IF PairMc(pair) <= 0 THEN 0 < min_gain
    ELSE PairMc(pair) < min_gain * launch_mc(pair)

\* round(num / den, 1), in tenths (ties to the even tenth).
Round1(num, den) ==
    LET q == (10 * num) \div den
        r == (10 * num) % den
    IN IF 2 * r > den \/ (2 * r = den /\ q % 2 = 1) THEN q + 1 ELSE q

\* gain_multiple of a winner, in tenths.
GainMultiple(pair) ==
    IF PairMc(pair) <= 0 THEN 0 ELSE Round1(PairMc(pair), launch_mc(pair))

\* "Deduplicate: keep highest MC pair per token": a dict in insertion
\* order; a later pair replaces the entry of its token when its market cap
\* is strictly higher.
RECURSIVE BestPerToken(_, _)
BestPerToken(pairs, best) ==
    IF pairs = <<>> THEN best
    ELSE LET pair == Head(pairs)
             at == {i \in 1..Len(best) : best[i].address = pair.address}
         IN IF pair.address = None THEN BestPerToken(Tail(pairs), best)
            ELSE IF at = {}
            THEN BestPerToken(Tail(pairs), Append(best, pair))
            ELSE IF PairMc(pair) > PairMc(best[CHOOSE i \in at : TRUE])
            THEN BestPerToken(Tail(pairs),
                              [best EXCEPT ![CHOOSE i \in at : TRUE] = pair])
            ELSE BestPerToken(Tail(pairs), best)

\* Variant: a pair without creation time is dropped as well.
TooOldOrUndated(pair, cutoff) ==
    pair.pairCreatedAt = 0 \/ pair.pairCreatedAt < cutoff

\* if created and created < cutoff_ms: continue
TooOldPair(pair, cutoff) ==
    pair.pairCreatedAt # 0 /\ pair.pairCreatedAt < cutoff

\* The dict appended to winners for a pair that passed the filter.
WinnerOf(pair) ==
    [address |-> pair.address, symbol |-> pair.symbol, dex |-> pair.dexId,
     market_cap |-> PairMc(pair), gain_multiple |-> GainMultiple(pair),
     pair_created_at |-> pair.pairCreatedAt]

\* winners.sort(key=gain_multiple, reverse=True): a stable sort.
InsertByGain(sorted, w) ==
    LET k == Cardinality({i \in 1..Len(sorted) :
                             sorted[i].gain_multiple >= w.gain_multiple})
    IN SubSeq(sorted, 1, k) \o <<w>> \o SubSeq(sorted, k + 1, Len(sorted))

RECURSIVE SortedByGain(_)
SortedByGain(ws) ==
    IF ws = <<>> THEN <<>>
    ELSE InsertByGain(SortedByGain(SubSeq(ws, 1, Len(ws) - 1)), ws[Len(ws)])

\* discover_winning_tokens from the fetched pairs on: deduplication,
\* "Filter for winners", sort.
discover_winning_tokens(pairs, min_gain, cutoff) ==
    LET best == BestPerToken(pairs, <<>>)
        kept == SelectSeq(best, LAMBDA pair :
                    ~TooOldPair(pair, cutoff) /\ ~GainBelow(pair, min_gain))
    IN SortedByGain([i \in 1..Len(kept) |-> WinnerOf(kept[i])])

\* The winner made by a launch-venue pair of addr at market_cap.
Winner(addr, market_cap) ==
    WinnerOf(CandidatePair(addr, market_cap, 0, "pumpfun", 0, "SYM"))

DiscoveredTokenRow(id, w) ==
    [id |-> id, address |-> w.address, symbol |-> w.symbol, dex |-> w.dex,
     peak_market_cap |-> w.market_cap,
     current_market_cap |-> w.market_cap,
     launch_market_cap |-> LAUNCH_MARKET_CAP,
     gain_multiple |-> w.gain_multiple,
     pair_created_at |-> w.pair_created_at, status |-> "pending",
     early_buyers_found |-> 0]

\* DiscoveredToken.symbol is NOT NULL: the commit of a winner without
\* symbol raises IntegrityError and rolls the whole save back.
SaveRaises(winners) == \E i \in 1..Len(winners) : winners[i].symbol = NullSymbol

\* Variant: a known address is queued again.
RECURSIVE SaveWinnersRequeue(_, _)
SaveWinnersRequeue(winners, rows) ==
    IF winners = <<>> THEN rows
    ELSE LET w == Head(winners)
             existing == {i \in 1..Len(rows) : rows[i].address = w.address}
         IN IF existing # {}
            THEN SaveWinnersRequeue(Tail(winners),
                   [rows EXCEPT ![CHOOSE i \in existing : TRUE] =
                       [@ EXCEPT !.current_market_cap = w.market_cap,
                                 !.gain_multiple = w.gain_multiple,
                                 !.status = "pending"]])
            ELSE SaveWinnersRequeue(Tail(winners),
                   Append(rows, DiscoveredTokenRow(Len(rows) + 1, w)))

\* "Save winners to DB": refresh the row of a known address, insert a
\* pending row for a new one.
RECURSIVE SaveWinners(_, _)
SaveWinners(winners, rows) ==
    IF winners = <<>> THEN rows
    ELSE LET w == Head(winners)
             existing == {i \in 1..Len(rows) : rows[i].address = w.address}
         IN IF existing # {}
            THEN SaveWinners(Tail(winners),
                   [rows EXCEPT ![CHOOSE i \in existing : TRUE] =
                       [@ EXCEPT !.current_market_cap = w.market_cap,
                                 !.gain_multiple = w.gain_multiple]])
            ELSE SaveWinners(Tail(winners),
                   Append(rows, DiscoveredTokenRow(Len(rows) + 1, w)))

\* Variant: the select has no status filter.
AllIds(rows) == [i \in 1..Len(rows) |-> rows[i].id]

\* select(DiscoveredToken).where(status.in_([pending, processing])): the
\* ids of the selected rows, in table order.
PendingIds(rows) ==
    LET sel == SelectSeq(rows, LAMBDA d : d.status \in {"pending", "processing"})
    IN [i \in 1..Len(sel) |-> sel[i].id]

EarlyBuyerRow(id, dt, b) ==
    [id |-> id, token_id |-> dt.id, token_address |-> dt.address,
     wallet_address |-> b.wallet_address,
     entry_timestamp |-> b.entry_timestamp]

\* Variant: the lookup of an existing row is missing.
RECURSIVE SaveBuyersBlindly(_, _, _)
SaveBuyersBlindly(buyers, dt, rows) ==
    IF buyers = <<>> THEN rows
    ELSE SaveBuyersBlindly(Tail(buyers), dt,
            Append(rows, EarlyBuyerRow(Len(rows) + 1, dt, Head(buyers))))

\* for b in buyers: add an EarlyBuyer unless one exists for (token, wallet).
RECURSIVE SaveBuyers(_, _, _)
SaveBuyers(buyers, dt, rows) ==
    IF buyers = <<>> THEN rows
    ELSE LET b == Head(buyers)
             existing_buyer ==
                 \E i \in 1..Len(rows) :
                    /\ rows[i].token_address = dt.address
                    /\ rows[i].wallet_address = b.wallet_address
         IN IF existing_buyer THEN SaveBuyers(Tail(buyers), dt, rows)
            ELSE SaveBuyers(Tail(buyers), dt,
                    Append(rows, EarlyBuyerRow(Len(rows) + 1, dt, b)))

\* Variant: the join does not look at the token's status.
TokenCountAnyStatus(w, ebs, dts) ==
    Cardinality({ebs[i].token_address : i \in
        {j \in 1..Len(ebs) : ebs[j].wallet_address = w}})

\* COUNT(DISTINCT eb.token_address) over the early_buyers rows of wallet w
\* joined to discovered_tokens rows in status done.
TokenCount(w, ebs, dts) ==
    Cardinality({ebs[i].token_address : i \in
        {j \in 1..Len(ebs) :
            /\ ebs[j].wallet_address = w
            /\ \E k \in 1..Len(dts) :
                  dts[k].id = ebs[j].token_id /\ dts[k].status = "done"}})

\* The rows of the query, ORDER BY token_count DESC (ties by address).
RECURSIVE Ranked(_, _, _)
Ranked(ws, ebs, dts) ==
    IF ws = {} THEN <<>>
    ELSE LET w == CHOOSE x \in ws : \A y \in ws :
                     \/ TokenCount(x, ebs, dts) > TokenCount(y, ebs, dts)
                     \/ /\ TokenCount(x, ebs, dts) = TokenCount(y, ebs, dts)
                        /\ x <= y
         IN <<[wallet_address |-> w, token_count |-> TokenCount(w, ebs, dts)]>>
            \o Ranked(ws \ {w}, ebs, dts)

identify_smart_wallets(ebs, dts) ==
    Ranked({w \in {ebs[i].wallet_address : i \in 1..Len(ebs)} :
               TokenCount(w, ebs, dts) >= MIN_APPEARANCES}, ebs, dts)

CandidateRow(id, c) ==
    [id |-> id, wallet_address |-> c.wallet_address,
     token_count |-> c.token_count, is_promoted |-> FALSE]

\* Variant: the row of a known wallet is replaced by a new one.
RECURSIVE SaveCandidatesAfresh(_, _)
SaveCandidatesAfresh(rows, candidates) ==
    IF candidates = <<>> THEN rows
    ELSE LET c == Head(candidates)
             existing == {i \in 1..Len(rows) :
                             rows[i].wallet_address = c.wallet_address}
         IN IF existing # {}
            THEN SaveCandidatesAfresh(
                   [rows EXCEPT ![CHOOSE i \in existing : TRUE] =
                       CandidateRow(CHOOSE i \in existing : TRUE, c)],
                   Tail(candidates))
            ELSE SaveCandidatesAfresh(
                   Append(rows, CandidateRow(Len(rows) + 1, c)),
                   Tail(candidates))

RECURSIVE save_smart_wallet_candidates(_, _)
save_smart_wallet_candidates(rows, candidates) ==
    IF candidates = <<>> THEN rows
    ELSE LET c == Head(candidates)
             existing == {i \in 1..Len(rows) :
                             rows[i].wallet_address = c.wallet_address}
         IN IF existing # {}
            THEN save_smart_wallet_candidates(
                   [rows EXCEPT ![CHOOSE i \in existing : TRUE].token_count =
                                    c.token_count],
                   Tail(candidates))
            ELSE save_smart_wallet_candidates(
                   Append(rows, CandidateRow(Len(rows) + 1, c)),
                   Tail(candidates))

\* Variant: no lookup of an existing TrackedWallet; a row is written for
\* every chosen candidate.
PromotedBlindly(rows, wallets, chosen) ==
    LET added == {rows[i].wallet_address : i \in chosen}
    IN [candidates |-> [i \in 1..Len(rows) |->
                          IF i \in chosen
                          THEN [rows[i] EXCEPT !.is_promoted = TRUE]
                          ELSE rows[i]],
        wallets |-> [w \in DOMAIN wallets \cup added |->
                       IF w \in added THEN "active" ELSE wallets[w]],
        inserts |-> added]

\* The promotion loop over the candidate rows chosen: each is marked
\* promoted; an active TrackedWallet is inserted for it unless
\* session.get(TrackedWallet, address) finds one.  inserts: the addresses
\* for which a TrackedWallet row was added.
Promoted(rows, wallets, chosen) ==
    LET added == {rows[i].wallet_address : i \in chosen} \ DOMAIN wallets
    IN [candidates |-> [i \in 1..Len(rows) |->
                          IF i \in chosen
                          THEN [rows[i] EXCEPT !.is_promoted = TRUE]
                          ELSE rows[i]],
        wallets |-> [w \in DOMAIN wallets \cup added |->
                       IF w \in DOMAIN wallets THEN wallets[w] ELSE "active"],
        inserts |-> added]

\* auto_promote_candidates: the unpromoted candidates with enough
\* appearances.
auto_promote_candidates(rows, wallets) ==
    Promoted(rows, wallets,
             {i \in 1..Len(rows) :
                 /\ rows[i].token_count >= MIN_APPEARANCES
                 /\ ~rows[i].is_promoted})

\* POST /discovery/promote/{wallet_address}: the candidate of that
\* address, if there is one and it is not promoted.
promote_candidate(rows, wallets, wallet_address) ==
    Promoted(rows, wallets,
             {i \in 1..Len(rows) :
                 /\ rows[i].wallet_address = wallet_address
                 /\ ~rows[i].is_promoted})

\* Variant: the promoted candidates are taken as well.
PromoteAllAgain(rows, wallets) ==
    Promoted(rows, wallets, 1..Len(rows))

\* POST /discovery/promote-all: every unpromoted candidate.
promote_all_candidates(rows, wallets) ==
    Promoted(rows, wallets, {i \in 1..Len(rows) : ~rows[i].is_promoted})

\* The locals of a run_discovery coroutine.  cutoff is the local of
\* discover_winning_tokens; fetch and txs (the response of the
\* transaction fetch) are kept for the properties.
IdleRun ==
    [pc |-> "idle", min_gain |-> MIN_GAIN_MULTIPLE, cutoff |-> 0,
     early_buyer_count |-> DEFAULT_EARLY_BUYER_COUNT,
     auto_promote |-> FALSE, pending |-> <<>>, dt |-> None, fetch |-> "none",
     txs |-> <<>>, buyers |-> <<>>, outcome |-> "none"]

(***************************************************************************)
(* Initial state: empty tokens/signals tables, a roster in which wallet 2  *)
(* is paused and the others are active, no scan in flight, the listener    *)
(* task about to open the WebSocket.                                       *)
(***************************************************************************)
StartTime == 100000

IdleScan ==
    [pc |-> "idle", token_address |-> None, meta |-> NoMeta, fetch |-> "none",
     signers |-> {}, smart_wallet_count |-> 0, result |-> "none"]

Init ==
    /\ tokens = <<>>
    /\ signals = <<>>
    /\ tracked_wallets = [w \in Wallets |-> IF w = 2 THEN "paused" ELSE "active"]
    /\ scan = [s \in Scanners |-> IdleScan]
    /\ lpc = "connect"
    /\ cur = None
    /\ page = <<>>
    /\ seen_signatures = {}
    /\ seen_old = 0
    /\ head = 0
    /\ event = NoEvent
    /\ now = StartTime
    /\ ppc = "startup_sleep"
    /\ sweep = NoSweep
    /\ discovered_tokens = <<>>
    /\ early_buyers = <<>>
    /\ smart_wallet_candidates = <<>>
    /\ run = [r \in Runners |-> IdleRun]
    /\ seeded = FALSE

(***************************************************************************)
(* Listener continuation: what the listener task does, up to its next      *)
(* await, once the scan it awaited has returned or raised.                 *)
(***************************************************************************)
\* Rest of the page loop, then the cap on seen_signatures, then sleep(5).
PollResume(p, seen) ==
    LET nx == PollNext(p, seen)
    IN /\ lpc' = nx.pc
       /\ cur' = nx.cur
       /\ page' = nx.page
       /\ \E keep \in (IF nx.pc = "poll_sleep"
                       THEN Truncations(nx.seen, seen_old)
                       ELSE {[seen |-> nx.seen, old |-> seen_old]}) :
             /\ seen_signatures' = keep.seen
             /\ seen_old' = keep.old

\* Variant: an exception out of the handling of a WebSocket message is not
\* caught per message and ends _websocket_listener.
ListenerResumeErrorEndsStream(origin, raised) ==
    IF origin = "ws"
    THEN /\ lpc' = IF raised THEN OnWebsocketExit("Other") ELSE "subscribed"
         /\ cur' = None
         /\ UNCHANGED <<page, seen_signatures, seen_old>>
    ELSE IF raised
         THEN /\ lpc' = OnPollingError
              /\ cur' = None
              /\ page' = <<>>
              /\ UNCHANGED <<seen_signatures, seen_old>>
         ELSE PollResume(page, seen_signatures)

\* origin "ws": the try/except around one WebSocket message swallows the
\* exception and the async for takes the next message.  origin "poll": a
\* return continues the page loop, an exception leaves it for the except
\* clause of the while loop.
ListenerResume(origin, raised) ==
    IF origin = "ws"
    THEN /\ lpc' = "subscribed"
         /\ cur' = None
         /\ UNCHANGED <<page, seen_signatures, seen_old>>
    ELSE IF raised
         THEN /\ lpc' = OnPollingError
              /\ cur' = None
              /\ page' = <<>>
              /\ UNCHANGED <<seen_signatures, seen_old>>
         ELSE PollResume(page, seen_signatures)

Origin == IF lpc \in {"subscribed", "ws_extract", "ws_scan"} THEN "ws" ELSE "poll"

(***************************************************************************)
(* scan_new_token.                                                         *)
(***************************************************************************)
Finished(rec, result) == [rec EXCEPT !.pc = "idle", !.result = result]

\* The scan of scanner s ends (returns, or raises when raised is TRUE).
ScanEnds(s, rec, raised) ==
    /\ scan' = [scan EXCEPT ![s] = rec]
    /\ IF s = "listener"
       THEN ListenerResume(Origin, raised)
       ELSE UNCHANGED <<lpc, cur, page, seen_signatures, seen_old>>

\* Call of scan_new_token(addr) up to its first await: the dedup check.
ScanCall(s, addr) ==
    IF TokenExists(tokens, addr)
    THEN ScanEnds(s, Finished([IdleScan EXCEPT !.token_address = addr], "dedup"),
                  FALSE)
    ELSE /\ scan' = [scan EXCEPT ![s] =
                        [IdleScan EXCEPT !.pc = "meta", !.token_address = addr]]
         /\ IF s = "listener"
            THEN /\ lpc' = IF Origin = "ws" THEN "ws_scan" ELSE "poll_scan"
                 /\ cur' = None
                 /\ UNCHANGED <<page, seen_signatures, seen_old>>
            ELSE UNCHANGED <<lpc, cur, page, seen_signatures, seen_old>>

\* get_token_metadata returns: metadata failure and age filter.
ScanMetaReturns(s, Responses, Das) ==
    /\ scan[s].pc = "meta"
    /\ \E resp \in Responses, das \in Das :
         LET meta == get_token_metadata(resp, das, now)
             rec == [scan[s] EXCEPT !.fetch = resp.kind, !.meta = meta]
         IN IF ~meta.ok
            THEN ScanEnds(s, Finished(rec, "no_metadata"), FALSE)
            ELSE IF TooOld(now, meta.created_at)
            THEN ScanEnds(s, Finished(rec, "too_old"), FALSE)
            ELSE /\ scan' = [scan EXCEPT ![s] = [rec EXCEPT !.pc = "signers"]]
                 /\ UNCHANGED <<lpc, cur, page, seen_signatures, seen_old>>
    /\ UNCHANGED <<tokens, signals, tracked_wallets, head, event, now, priceVars, discoveryVars>>

\* get_token_signers returns: cross-reference, score, persist.
ScanSignersReturn(s, Responses) ==
    /\ scan[s].pc = "signers"
    /\ \E resp \in Responses :
         LET signers == get_token_signers(resp)
             matches == MatchingWallets(tracked_wallets, signers)
             smart_wallet_count == Cardinality(matches)
             rec == [scan[s] EXCEPT !.signers = signers,
                                    !.smart_wallet_count = smart_wallet_count]
             done == Commit(tokens, signals, scan[s].token_address,
                            scan[s].meta, smart_wallet_count,
                            Confidence(smart_wallet_count))
         IN IF smart_wallet_count < MIN_SMART_WALLETS
            THEN /\ ScanEnds(s, Finished(rec, "few_matches"), FALSE)
                 /\ UNCHANGED <<tokens, signals>>
            ELSE /\ tokens' = done.tokens
                 /\ signals' = done.signals
                 /\ ScanEnds(s, Finished(rec, IF done.raised THEN "IntegrityError"
                                              ELSE "signal"),
                             done.raised)
    /\ UNCHANGED <<tracked_wallets, head, event, now, priceVars, discoveryVars>>

\* The second application instance hands a candidate to its analyzer.
PeerDelivers ==
    /\ scan["peer"].pc = "idle"
    /\ \E addr \in Addresses : ScanCall("peer", addr)
    /\ UNCHANGED <<tokens, signals, tracked_wallets, head, event, now, priceVars, discoveryVars>>

(***************************************************************************)
(* listen_for_new_tokens / _websocket_listener.                            *)
(***************************************************************************)
\* Leaving _websocket_listener with exc: reconnect delay or polling.  The
\* polling listener starts with an empty seen set and its first request.
WebsocketExits(exc) ==
    /\ lpc' = OnWebsocketExit(exc)
    /\ cur' = None
    /\ page' = <<>>
    /\ seen_signatures' = {}
    /\ seen_old' = 0
    /\ event' = NoEvent

\* websockets.connect(...) and ws.send(subscribe_msg)
ConnectOutcomes ==
    {"ok", "InvalidURI", "ConnectionRefused", "ConnectionClosed", "Other"}

WsConnect(Outcomes) ==
    /\ lpc = "connect"
    /\ \E out \in Outcomes :
         IF out = "ok"
         THEN /\ lpc' = "confirm"
              /\ UNCHANGED <<cur, page, seen_signatures, seen_old, event>>
         ELSE WebsocketExits(out)
    /\ UNCHANGED <<tokens, signals, tracked_wallets, scan, head, now, priceVars, discoveryVars>>

\* confirmation = await ws.recv(); json.loads(confirmation)
WsConfirm ==
    /\ lpc = "confirm"
    /\ \E out \in {"ok", "ConnectionClosed", "Other"} :
         IF out = "ok"
         THEN /\ lpc' = "subscribed"
              /\ UNCHANGED <<cur, page, seen_signatures, seen_old, event>>
         ELSE WebsocketExits(out)
    /\ UNCHANGED <<tokens, signals, tracked_wallets, scan, head, now, priceVars, discoveryVars>>

\* `async for message in ws` ends: the connection closed with an error
\* (ConnectionClosed is raised) or normally (the loop just ends).
WsDisconnect ==
    /\ lpc = "subscribed"
    /\ \E exc \in {"ConnectionClosed", "CleanEnd"} : WebsocketExits(exc)
    /\ UNCHANGED <<tokens, signals, tracked_wallets, scan, head, now, priceVars, discoveryVars>>

\* One message of the subscription, up to the first await of its handling.
WsReceive(Messages) ==
    /\ lpc = "subscribed"
    /\ \E m \in Messages :
         LET token_address == _extract_token_address_from_logs(m.logs)
         IN IF m.kind # "json" \/ m.logs = <<>> \/ ~is_create(m.logs)
            THEN /\ event' = Received(m)
                 /\ UNCHANGED <<lpc, cur, page, seen_signatures, seen_old, scan>>
            ELSE IF token_address # None
            THEN /\ ScanCall("listener", token_address)
                 /\ event' = Forwarded(Received(m))
            ELSE IF m.signature # None
            THEN /\ lpc' = "ws_extract"
                 /\ cur' = m.signature
                 /\ event' = Received(m)
                 /\ UNCHANGED <<page, seen_signatures, seen_old, scan>>
            ELSE /\ event' = Received(m)
                 /\ UNCHANGED <<lpc, cur, page, seen_signatures, seen_old, scan>>
    /\ UNCHANGED <<tokens, signals, tracked_wallets, head, now, priceVars, discoveryVars>>

\* _extract_token_from_tx(signature) returns to the message handler.
WsExtractReturns(Responses) ==
    /\ lpc = "ws_extract"
    /\ \E resp \in Responses :
         LET token_address == _extract_token_from_tx(resp)
         IN IF token_address # None
            THEN /\ ScanCall("listener", token_address)
                 /\ event' = Forwarded(Resolved(event, token_address))
            ELSE /\ lpc' = "subscribed"
                 /\ cur' = None
                 /\ event' = Resolved(event, token_address)
                 /\ UNCHANGED <<page, seen_signatures, seen_old, scan>>
    /\ UNCHANGED <<tokens, signals, tracked_wallets, head, now, priceVars, discoveryVars>>

\* await asyncio.sleep(5) of listen_for_new_tokens is over.
ReconnectDelayOver ==
    /\ lpc = "reconnect_sleep"
    /\ lpc' = "connect"
    /\ UNCHANGED <<tokens, signals, tracked_wallets, scan, cur, page,
                   seen_signatures, seen_old, head, event, now, priceVars, discoveryVars>>

(***************************************************************************)
(* _polling_listener.                                                      *)
(***************************************************************************)
\* getSignaturesForAddress returns a page, or the request / resp.json()
\* raises.
PollFetchReturns ==
    /\ lpc = "poll_fetch"
    /\ \/ \E h \in head..NumSigs :
            /\ head' = h
            /\ PollResume(PageAt(h), seen_signatures)
       \/ /\ lpc' = OnPollingError
          /\ UNCHANGED <<cur, page, seen_signatures, seen_old, head>>
    /\ UNCHANGED <<tokens, signals, tracked_wallets, scan, event, now, priceVars, discoveryVars>>

\* _extract_token_from_tx(sig) returns to the page loop.
PollExtractReturns(Responses) ==
    /\ lpc = "poll_extract"
    /\ \E resp \in Responses :
         LET token_address == _extract_token_from_tx(resp)
         IN IF token_address # None
            THEN ScanCall("listener", token_address)
            ELSE /\ PollResume(page, seen_signatures)
                 /\ UNCHANGED scan
    /\ UNCHANGED <<tokens, signals, tracked_wallets, head, event, now, priceVars, discoveryVars>>

\* await asyncio.sleep(5) of the polling loop is over.
PollDelayOver ==
    /\ lpc = "poll_sleep"
    /\ lpc' = "poll_fetch"
    /\ UNCHANGED <<tokens, signals, tracked_wallets, scan, cur, page,
                   seen_signatures, seen_old, head, event, now, priceVars, discoveryVars>>

\* listener_task.cancel() at shutdown: CancelledError is raised at the
\* await the task is suspended in; an open session is closed uncommitted.
ListenerCancelled ==
    /\ lpc # "cancelled"
    /\ lpc' = "cancelled"
    /\ cur' = None
    /\ page' = <<>>
    /\ scan' = [scan EXCEPT !["listener"] =
                  IF @.pc = "idle" THEN @ ELSE Finished(@, "cancelled")]
    /\ UNCHANGED <<tokens, signals, tracked_wallets, seen_signatures, seen_old, head, event, now, priceVars, discoveryVars>>

(***************************************************************************)
(* price_updater.                                                          *)
(***************************************************************************)
\* Pairs the provider can report for base token a: every combination of
\* market caps, venues and liquidities around the thresholds of the rule,
\* pairs that carry only an fdv or no valuation at all, and a pair whose
\* liquidity is null.
PairGrid(a) ==
    {Pair(a, mc, 0, dex, liq) :
        mc \in {RUGGED_MC - 100, RUGGED_MC - 1, RUGGED_MC, GRADUATED_MC - 1,
                GRADUATED_MC, GRADUATED_MC + 10000, GRADUATED_MC * 2 - 1,
                GRADUATED_MC * 2, GRADUATED_MC * 3},
        dex \in {"raydium", "METEORA", "pumpfun"},
        liq \in {0, RUGGED_LIQUIDITY \div 2, RUGGED_LIQUIDITY - 1,
                 RUGGED_LIQUIDITY}}
    \cup {Pair(a, 0, fdv, "raydium", RUGGED_LIQUIDITY) :
            fdv \in {0, GRADUATED_MC + 10000}}
    \cup {Pair(a, GRADUATED_MC, 0, "raydium", Null)}

\* The three outcomes for base token a: a collapse, a listing on an
\* allow-listed venue, and a quiet pair on the launch venue.
PairChoices(a) ==
    {Pair(a, RUGGED_MC - 100, 0, "pumpfun", RUGGED_LIQUIDITY \div 2),
     Pair(a, GRADUATED_MC + 10000, 0, "Raydium", RUGGED_LIQUIDITY),
     Pair(a, GRADUATED_MC - 1, 0, "pumpfun", RUGGED_LIQUIDITY)}

PairList(pairs) == [kind |-> "list", pairs |-> pairs]

\* Responses to one batch request: a failed request, no pairs, one pair of
\* Singles, or two pairs of Doubles in either order.
PriceResponses(Singles, Doubles) ==
    {[kind |-> "failed", pairs |-> <<>>], PairList(<<>>)}
    \cup {PairList(<<pair>>) : pair \in Singles}
    \cup {PairList(<<p, q>>) : p \in Doubles, q \in Doubles}

\* asyncio.sleep(10) / asyncio.sleep(60) is over: the next pass loads the
\* tokens in status bonding_curve or graduated, drops the stale ones and
\* either sleeps again or requests their pairs.
SweepBegins ==
    /\ ppc \in {"startup_sleep", "sleep"}
    /\ LET active_tokens ==
               SelectSeq(Swept(tokens), LAMBDA t : Fresh(now, t.created_at))
       IN /\ sweep' = [NoSweep EXCEPT !.now = now,
                                      !.active_tokens = active_tokens]
          /\ ppc' = IF active_tokens = <<>> THEN "sleep" ELSE "fetch"
    /\ UNCHANGED <<signals, tracked_wallets, tokens, listenerVars, now,
                   discoveryVars>>

\* _fetch_token_data returns: update every loaded token, commit, sleep.
\* An exception in the loop leaves the session uncommitted.
SweepFetchReturns(Responses) ==
    /\ ppc = "fetch"
    /\ \E resp \in Responses :
         LET pair_data == _fetch_token_data(resp)
             loaded == sweep.active_tokens
             updated == [k \in DOMAIN loaded |->
                           SweptToken(loaded[k],
                                      pair_data[loaded[k].contract_address])]
             raises == \E k \in DOMAIN loaded :
                           DetermineRaises(pair_data[loaded[k].contract_address])
         IN /\ sweep' = [sweep EXCEPT !.pair_data = pair_data]
            /\ tokens' = IF raises THEN tokens
                         ELSE Flushed(tokens, loaded, updated)
    /\ ppc' = "sleep"
    /\ UNCHANGED <<signals, tracked_wallets, listenerVars, now, discoveryVars>>

\* price_task.cancel() at shutdown.
PriceCancelled ==
    /\ ppc # "cancelled"
    /\ ppc' = "cancelled"
    /\ UNCHANGED <<tokens, signals, tracked_wallets, listenerVars, now, sweep,
                   discoveryVars>>

\* Time passes: from the start to the moment a token created
\* MAX_AGE_SECONDS before the start turns exactly STALE_HOURS old, then
\* second by second.
ClockEnd == StartTime + STALE_HOURS * SECONDS_PER_HOUR - MAX_AGE_SECONDS + MaxDrift

Tick ==
    /\ now < ClockEnd
    /\ now' = IF now = StartTime
              THEN StartTime + STALE_HOURS * SECONDS_PER_HOUR - MAX_AGE_SECONDS
              ELSE now + 1
    /\ UNCHANGED <<tokens, signals, tracked_wallets, listenerVars, priceVars,
                   discoveryVars>>

(***************************************************************************)
(* run_discovery.                                                          *)
(***************************************************************************)
\* Outcomes of discover_winning_tokens: it raises, it finds nothing, or it
\* returns up to two winners of Mints at the market caps Mcs.
WinnerSamples(Mints, Mcs) == {Winner(a, mc) : a \in Mints, mc \in Mcs}
WinnerOutcomes(Mints, Mcs) ==
    {[kind |-> "raised", winners |-> <<>>], [kind |-> "winners", winners |-> <<>>]}
    \cup {[kind |-> "winners", winners |-> <<w>>] : w \in WinnerSamples(Mints, Mcs)}
    \cup {[kind |-> "winners", winners |-> <<vw[1], vw[2]>>] :
            vw \in {x \in WinnerSamples(Mints, Mcs) \X WinnerSamples(Mints, Mcs) :
                       x[1].address # x[2].address}}

\* Outcomes of a search that fetched one of PairLists, for a run with
\* the arguments min_gain and cutoff; or the search raises.
SearchOutcomes(PairLists, min_gain, cutoff) ==
    {[kind |-> "raised", winners |-> <<>>]}
    \cup {[kind |-> "winners",
           winners |-> discover_winning_tokens(pairs, min_gain, cutoff)] :
            pairs \in PairLists}

\* Responses to the transaction fetch of an extraction: failures, one
\* stranger buying twice and another once, and a stranger and a wallet of
\* the roster (without timestamp) buying once.
BuyerResponses ==
    {Raised("timeout"), Raised("not_list"),
     TxList(<<Tx(NumWallets + 1, "SWAP", "JUPITER", 10),
              Tx(NumWallets + 2, "UNKNOWN", "PUMP_FUN", 7),
              Tx(NumWallets + 1, "SWAP", "JUPITER", 5)>>),
     TxList(<<Tx(NumWallets + 1, "SWAP", "RAYDIUM", 3),
              Tx(1, "SWAP", "JUPITER", None)>>)}

\* Every response of up to MaxTxs transactions over: buys and transfers of
\* two strangers at two times, a launch-venue transaction without
\* timestamp, a swap without fee payer, a swap with a null timestamp.
ExtractAlphabet ==
    {Tx(w, type, "JUPITER", ts) :
        w \in Strangers, type \in {"SWAP", "TRANSFER"}, ts \in {5, 10}}
    \cup {Tx(NumWallets + 1, "UNKNOWN", "PUMP", None),
          Tx(None, "SWAP", "JUPITER", 5),
          Tx(NumWallets + 1, "SWAP", "JUPITER", Null)}
ExtractResponses ==
    {Raised("http_error")}
    \cup UNION {{TxList(txs) : txs \in [1..n -> ExtractAlphabet]} : n \in 0..MaxTxs}

StoreOutcomes == {"ok", "error_saved", "error_lost"}

\* Pairs the search can fetch for a run with the given cutoff: for mint 1
\* a launch-venue pair at exactly 100x created at the cutoff, one just
\* below 100x, one above 200x on a venue spelt with capitals, a pair of
\* another venue at 200x created just before the cutoff, one at 100x
\* without creation time, one with fdv only and a null symbol; for mint 2
\* a launch-venue pair at 200x; and a pair without base token address.
SearchPairs(cutoff) ==
    {CandidatePair(1, 100 * PUMP_LAUNCH_MC, 0, "pumpfun", cutoff, "SYM"),
     CandidatePair(1, 100 * PUMP_LAUNCH_MC - 1, 0, "pumpfun", cutoff + 1, "SYM"),
     CandidatePair(1, 200 * PUMP_LAUNCH_MC + 300, 0, "PumpSwap", cutoff + 1, "SYM"),
     CandidatePair(1, 200 * OTHER_LAUNCH_MC, 0, "raydium", cutoff - 1, "SYM"),
     CandidatePair(1, 100 * OTHER_LAUNCH_MC, 0, "raydium", 0, "SYM"),
     CandidatePair(1, 0, 300 * PUMP_LAUNCH_MC, "pumpfun", cutoff + 1, NullSymbol),
     CandidatePair(2, 200 * PUMP_LAUNCH_MC, 0, "pumpfun", cutoff + 1, "SYM"),
     CandidatePair(None, 200 * PUMP_LAUNCH_MC, 0, "pumpfun", cutoff + 1, "SYM")}

MaxPairs == 2
PairLists(cutoff) ==
    UNION {[1..n -> SearchPairs(cutoff)] : n \in 0..MaxPairs}

\* run_discovery is called: the cutoff is taken and the search awaited.
RunStarts(r, Limits, Promote, Gains, Lookbacks) ==
    /\ run[r].pc = "idle"
    /\ \E limit \in Limits, auto_promote \in Promote, min_gain \in Gains,
          lookback_days \in Lookbacks :
         run' = [run EXCEPT ![r] =
                   [IdleRun EXCEPT !.pc = "search",
                                   !.min_gain = min_gain,
                                   !.cutoff = now - lookback_days * SECONDS_PER_DAY,
                                   !.early_buyer_count = limit,
                                   !.auto_promote = auto_promote]]
    /\ UNCHANGED <<tokens, signals, tracked_wallets, listenerVars, now,
                   priceVars, discovered_tokens, early_buyers,
                   smart_wallet_candidates>>

\* Variant: every scheduled run uses the threshold of the first one.
ScheduledGainAlwaysLow(first_done) == FIRST_RUN_MIN_GAIN

\* min_gain of the next run of run_discovery_background.
ScheduledGain(first_done) ==
    IF first_done THEN MIN_GAIN_MULTIPLE ELSE FIRST_RUN_MIN_GAIN

\* run_discovery_background: its sleep (asyncio.sleep(5) before the first
\* run, asyncio.sleep(6 * 3600) before every later one) is over and the
\* next run starts.  The scheduler is in that sleep whenever its run is
\* idle.
SchedulerWakes ==
    /\ RunStarts("scheduler", {DEFAULT_EARLY_BUYER_COUNT}, {TRUE},
                 {ScheduledGain(seeded)}, {LOOKBACK_DAYS})
    /\ seeded' = TRUE

\* POST /discovery/run: run_discovery is started as a background task
\* with the values of the form.
ManualTrigger(Limits, Promote, Gains, Lookbacks) ==
    /\ RunStarts("manual", Limits, Promote, Gains, Lookbacks)
    /\ UNCHANGED seeded

\* Head of `for dt in pending` with the rows dts: the next token is marked
\* processing and committed and its extraction awaited; after the last
\* one, steps 3 and 4 (aggregation, promotion) run and the run returns.
LoopHead(r, rec, pending, dts) ==
    IF pending # <<>>
    THEN /\ discovered_tokens' =
                [dts EXCEPT ![Head(pending)].status = "processing"]
         /\ run' = [run EXCEPT ![r] =
                      [rec EXCEPT !.pc = "extract", !.dt = Head(pending),
                                  !.pending = Tail(pending),
                                  !.fetch = "none", !.txs = <<>>,
                                  !.buyers = <<>>]]
         /\ UNCHANGED <<early_buyers, smart_wallet_candidates, tracked_wallets>>
    ELSE LET candidates == identify_smart_wallets(early_buyers, dts)
             saved == save_smart_wallet_candidates(smart_wallet_candidates,
                                                   candidates)
             promoted == IF rec.auto_promote
                         THEN auto_promote_candidates(saved, tracked_wallets)
                         ELSE [candidates |-> saved, wallets |-> tracked_wallets]
         IN /\ discovered_tokens' = dts
            /\ smart_wallet_candidates' = promoted.candidates
            /\ tracked_wallets' = promoted.wallets
            /\ run' = [run EXCEPT ![r] =
                         [IdleRun EXCEPT !.outcome = "complete"]]
            /\ UNCHANGED early_buyers

\* discover_winning_tokens returns or raises.  Without winners the run
\* returns at once; otherwise the winners are saved (the commit raises
\* for a winner without symbol) and the loop over the pending tokens
\* is entered.
SearchReturns(r, Outcomes) ==
    /\ run[r].pc = "search"
    /\ \E out \in Outcomes :
         IF out.kind = "raised" \/ out.winners = <<>> \/ SaveRaises(out.winners)
         THEN /\ run' = [run EXCEPT ![r] =
                           [IdleRun EXCEPT
                              !.outcome = IF out.kind = "winners" /\ out.winners = <<>>
                                          THEN "no_winners" ELSE "raised"]]
              /\ UNCHANGED <<discovered_tokens, early_buyers,
                             smart_wallet_candidates, tracked_wallets>>
         ELSE LET dts == SaveWinners(out.winners, discovered_tokens)
              IN LoopHead(r, run[r], PendingIds(dts), dts)
    /\ UNCHANGED <<tokens, signals, listenerVars, now, priceVars, seeded>>

\* extract_early_buyers returns: persist the buyers, mark the token done
\* and commit.  When the store raises at the lookup of an existing buyer
\* (there is one only if buyers were found), the except clause marks the
\* token error; its commit either succeeds or raises as well, which ends
\* the run with the token left in processing.
ExtractReturns(r, Responses, Outcomes) ==
    /\ run[r].pc = "extract"
    /\ \E resp \in Responses, store \in Outcomes :
         LET buyers == extract_early_buyers(resp, run[r].early_buyer_count)
             dt == discovered_tokens[run[r].dt]
             rec == [run[r] EXCEPT !.fetch = resp.kind,
                                   !.txs = FetchedTxs(resp),
                                   !.buyers = buyers]
         IN /\ store # "ok" => buyers # <<>>
            /\ CASE store = "ok" ->
                     /\ early_buyers' = SaveBuyers(buyers, dt, early_buyers)
                     /\ discovered_tokens' =
                           [discovered_tokens EXCEPT ![dt.id] =
                              [@ EXCEPT !.early_buyers_found = Len(buyers),
                                        !.status = "done"]]
                     /\ run' = [run EXCEPT ![r] = [rec EXCEPT !.pc = "pause"]]
                 [] store = "error_saved" ->
                     /\ discovered_tokens' =
                           [discovered_tokens EXCEPT ![dt.id].status = "error"]
                     /\ run' = [run EXCEPT ![r] = [rec EXCEPT !.pc = "pause"]]
                     /\ UNCHANGED early_buyers
                 [] OTHER ->
                     /\ run' = [run EXCEPT ![r] =
                                  [IdleRun EXCEPT !.outcome = "raised"]]
                     /\ UNCHANGED <<discovered_tokens, early_buyers>>
    /\ UNCHANGED <<tokens, signals, tracked_wallets, listenerVars, now,
                   priceVars, smart_wallet_candidates, seeded>>

\* await asyncio.sleep(1.0) after a token is over.
PauseOver(r) ==
    /\ run[r].pc = "pause"
    /\ LoopHead(r, run[r], run[r].pending, discovered_tokens)
    /\ UNCHANGED <<tokens, signals, listenerVars, now, priceVars, seeded>>

\* Variant: CancelledError is caught by the except clause of the token
\* loop like an Exception.
OnExtractCancelledCaught(status) == "error"

\* Status of the token whose extraction is awaited when the task is
\* cancelled: CancelledError is no Exception, the except clause does not
\* run and the session is closed with nothing to commit.
OnExtractCancelled(status) == status

\* discovery_task.cancel() at shutdown: CancelledError is raised at the
\* await the task is suspended in, a sleep of run_discovery_background
\* or an await of its run_discovery.
DiscoveryCancelled ==
    /\ run["scheduler"].pc # "cancelled"
    /\ discovered_tokens' =
          IF run["scheduler"].pc = "extract"
          THEN [discovered_tokens EXCEPT ![run["scheduler"].dt].status =
                   OnExtractCancelled(@)]
          ELSE discovered_tokens
    /\ run' = [run EXCEPT !["scheduler"] =
                  [IdleRun EXCEPT !.pc = "cancelled", !.outcome = "cancelled"]]
    /\ UNCHANGED <<tokens, signals, tracked_wallets, listenerVars, now,
                   priceVars, early_buyers, smart_wallet_candidates, seeded>>

\* POST /discovery/promote/{wallet_address}
PromoteCandidate(Ws) ==
    /\ \E wallet_address \in Ws :
         LET res == promote_candidate(smart_wallet_candidates, tracked_wallets,
                                      wallet_address)
         IN /\ smart_wallet_candidates' = res.candidates
            /\ tracked_wallets' = res.wallets
    /\ UNCHANGED <<tokens, signals, listenerVars, now, priceVars,
                   discovered_tokens, early_buyers, run, seeded>>

\* DELETE /wallets/{address}: the row is deleted if session.get finds it.
DeleteWallet(Ws) ==
    /\ \E address \in Ws :
         tracked_wallets' = [w \in DOMAIN tracked_wallets \ {address} |->
                               tracked_wallets[w]]
    /\ UNCHANGED <<tokens, signals, listenerVars, now, priceVars,
                   discoveryVars>>

\* POST /discovery/promote-all
PromoteAll ==
    /\ LET res == promote_all_candidates(smart_wallet_candidates,
                                         tracked_wallets)
       IN /\ smart_wallet_candidates' = res.candidates
          /\ tracked_wallets' = res.wallets
    /\ UNCHANGED <<tokens, signals, listenerVars, now, priceVars,
                   discovered_tokens, early_buyers, run, seeded>>

(***************************************************************************)
(* Spec: the listener (streaming and polling) and a second instance's scan *)
(* against one store, with the smaller choice of provider responses.       *)
(***************************************************************************)
Next ==
    \/ \E s \in Scanners : ScanMetaReturns(s, RaceMetaResponses(now), {"ok"})
    \/ \E s \in Scanners : ScanSignersReturn(s, RaceSignerResponses)
    \/ PeerDelivers
    \/ WsConnect(ConnectOutcomes)
    \/ WsConfirm
    \/ WsDisconnect
    \/ WsReceive(WsMessages(Addresses))
    \/ WsExtractReturns(TxResponses(Addresses))
    \/ ReconnectDelayOver
    \/ PollFetchReturns
    \/ PollExtractReturns(TxResponses(Addresses))
    \/ PollDelayOver
    \/ ListenerCancelled

Spec == Init /\ [][Next]_vars

(***************************************************************************)
(* SpecSeen: the polling loop of an instance that fell back to polling     *)
(* long ago: its seen set holds as many old signatures as the cap allows,  *)
(* or one less, when the provider starts to list signatures 1..NumSigs.    *)
(* A second instance scans the same mints.                                 *)
(***************************************************************************)

InitSeen ==
    /\ tokens = <<>>
    /\ signals = <<>>
    /\ tracked_wallets = [w \in Wallets |-> IF w = 2 THEN "paused" ELSE "active"]
    /\ scan = [s \in Scanners |-> IdleScan]
    /\ lpc = "poll_sleep"
    /\ cur = None
    /\ page = <<>>
    /\ seen_signatures = {}
    /\ seen_old \in {SEEN_CAP - 1, SEEN_CAP}
    /\ head = 0
    /\ event = NoEvent
    /\ now = StartTime
    /\ ppc = "startup_sleep"
    /\ sweep = NoSweep
    /\ discovered_tokens = <<>>
    /\ early_buyers = <<>>
    /\ smart_wallet_candidates = <<>>
    /\ run = [r \in Runners |-> IdleRun]
    /\ seeded = FALSE

NextSeen ==
    \/ \E s \in Scanners :
          ScanMetaReturns(s, {TxList(<<Tx(1, "SWAP", "PUMP_FUN",
                                          now - MAX_AGE_SECONDS)>>)}, {"ok"})
    \/ \E s \in Scanners : ScanSignersReturn(s, {TxList(SignerTxs(3))})
    \/ PeerDelivers
    \/ PollFetchReturns
    \/ PollExtractReturns({NoTx("error"),
                           ParsedTx(<<Ix("initializeMint", 1)>>, <<>>, <<>>)})
    \/ PollDelayOver

SpecSeen == InitSeen /\ [][NextSeen]_vars

(***************************************************************************)
(* SpecScan: one instance whose endpoint is valid and reachable, so the    *)
(* listener stays on the streaming transport; events of one mint, with     *)
(* every provider response of the metadata and signer fetches.             *)
(***************************************************************************)
NextScan ==
    \/ ScanMetaReturns("listener", MetaResponses(now), DasOutcomes)
    \/ ScanSignersReturn("listener", SignerResponses)
    \/ WsConnect({"ok", "ConnectionClosed", "Other"})
    \/ WsConfirm
    \/ WsDisconnect
    \/ WsReceive(WsMessages({1}))
    \/ WsExtractReturns(TxResponses({1}))
    \/ ReconnectDelayOver
    \/ ListenerCancelled

SpecScan == Init /\ [][NextScan]_vars

(***************************************************************************)
(* SpecPrice: the price tracker sweeping the token of one mint that the    *)
(* listener scanned and persisted, with every sampled pair.                *)
(* SpecStale: the same with two mints scanned at different times and the   *)
(* three pair outcomes for each.                                           *)
(***************************************************************************)
Fresh1(t) == TxList(<<Tx(1, "SWAP", "PUMP_FUN", t - MAX_AGE_SECONDS)>>)

FeedActions(Mints) ==
    \/ ScanMetaReturns("listener", {Fresh1(now)}, {"ok"})
    \/ ScanSignersReturn("listener", {TxList(SignerTxs(3))})
    \/ WsConnect({"ok"})
    \/ WsConfirm
    \/ WsReceive({WsMessage(<<LogLine("Create", a)>>, 1) : a \in Mints})
    \/ ReconnectDelayOver

NextPrice ==
    \/ FeedActions({1})
    \/ SweepBegins
    \/ SweepFetchReturns(PriceResponses(PairGrid(1), PairChoices(1)))
    \/ PriceCancelled
    \/ Tick

SpecPrice == Init /\ [][NextPrice]_vars

NextStale ==
    \/ FeedActions({1, 2})
    \/ SweepBegins
    \/ SweepFetchReturns(PriceResponses(PairChoices(1) \cup PairChoices(2),
                                        PairChoices(1) \cup PairChoices(2)))
    \/ PriceCancelled
    \/ Tick

SpecStale == Init /\ [][NextStale]_vars

(***************************************************************************)
(* SpecDiscovery: the scheduler's run and a manually triggered run over    *)
(* two winners, possibly overlapping.                                      *)
(* SpecExtract: one manual run over one winner, with every response of the *)
(* transaction fetch and the limits 0, 1, 2 and 50.                        *)
(***************************************************************************)
NextDiscovery ==
    \/ SchedulerWakes
    \/ ManualTrigger({DEFAULT_EARLY_BUYER_COUNT}, BOOLEAN,
                     {FIRST_RUN_MIN_GAIN}, {LOOKBACK_DAYS})
    \/ DiscoveryCancelled
    \/ \E r \in Runners : SearchReturns(r, WinnerOutcomes({1, 2}, {LAUNCH_MARKET_CAP * 200}))
    \/ \E r \in Runners : ExtractReturns(r, BuyerResponses, StoreOutcomes)
    \/ \E r \in Runners : PauseOver(r)

SpecDiscovery == Init /\ [][NextDiscovery]_vars

NextExtract ==
    \/ ManualTrigger({0, 1, 2, DEFAULT_EARLY_BUYER_COUNT}, {FALSE},
                     {FIRST_RUN_MIN_GAIN}, {LOOKBACK_DAYS})
    \/ SearchReturns("manual",
                     WinnerOutcomes({1}, {LAUNCH_MARKET_CAP * 200,
                                          LAUNCH_MARKET_CAP * 400}))
    \/ ExtractReturns("manual", ExtractResponses, {"ok"})
    \/ PauseOver("manual")

SpecExtract == Init /\ [][NextExtract]_vars

(***************************************************************************)
(* SpecSingle: the scheduler's runs alone, one after the other, over two   *)
(* winners, with every outcome of the store and the cancellation of the    *)
(* task at shutdown.                                                       *)
(***************************************************************************)
NextSingle ==
    \/ SchedulerWakes
    \/ DiscoveryCancelled
    \/ SearchReturns("scheduler",
                     WinnerOutcomes({1, 2}, {LAUNCH_MARKET_CAP * 200}))
    \/ ExtractReturns("scheduler", BuyerResponses, StoreOutcomes)
    \/ PauseOver("scheduler")

SpecSingle == Init /\ [][NextSingle]_vars

(***************************************************************************)
(* SpecSearch: manual runs at both thresholds and with a lookback of one   *)
(* day or seven, whose search computes the winners from every list of      *)
(* fetched pairs; the extraction finds no buyers.                          *)
(***************************************************************************)
NextSearch ==
    \/ ManualTrigger({DEFAULT_EARLY_BUYER_COUNT}, {FALSE},
                     {FIRST_RUN_MIN_GAIN, MIN_GAIN_MULTIPLE}, {1, LOOKBACK_DAYS})
    \/ SearchReturns("manual",
                     SearchOutcomes(PairLists(run["manual"].cutoff),
                                    run["manual"].min_gain,
                                    run["manual"].cutoff))
    \/ ExtractReturns("manual", {Raised("timeout")}, {"ok"})
    \/ PauseOver("manual")

SpecSearch == Init /\ [][NextSearch]_vars

(***************************************************************************)
(* SpecPromote: the scheduler's runs (auto_promote on) and manual runs      *)
(* (auto_promote off) over two winners, and the two promotion routes of    *)
(* the dashboard.                                                          *)
(***************************************************************************)
NextPromote ==
    \/ SchedulerWakes
    \/ ManualTrigger({DEFAULT_EARLY_BUYER_COUNT}, {FALSE},
                     {FIRST_RUN_MIN_GAIN}, {LOOKBACK_DAYS})
    \/ \E r \in Runners :
          SearchReturns(r, WinnerOutcomes({1, 2}, {LAUNCH_MARKET_CAP * 200}))
    \/ \E r \in Runners : ExtractReturns(r, BuyerResponses, {"ok"})
    \/ \E r \in Runners : PauseOver(r)
    \/ PromoteCandidate({1, NumWallets + 1, NumWallets + 2})
    \/ PromoteAll

SpecPromote == Init /\ [][NextPromote]_vars

(***************************************************************************)
(* SpecRemove: SpecPromote with the removal of a tracked wallet from the   *)
(* dashboard, for a wallet of the initial roster and for one that only a   *)
(* promotion can have added.                                               *)
(***************************************************************************)
NextRemove ==
    \/ NextPromote
    \/ DeleteWallet({1, NumWallets + 1})

SpecRemove == Init /\ [][NextRemove]_vars

(***************************************************************************)
(* Fairness.  Every await of the listener task other than the wait for the *)
(* next WebSocket message ends: the HTTP calls carry a 30 s timeout, the   *)
(* connection attempt succeeds or raises, asyncio.sleep(5) returns.        *)
(* Nothing is assumed of the subscription's traffic, of the second         *)
(* instance, or of cancellation.                                           *)
(***************************************************************************)
FairScan ==
    /\ SpecScan
    /\ WF_vars(ScanMetaReturns("listener", MetaResponses(now), DasOutcomes))
    /\ WF_vars(ScanSignersReturn("listener", SignerResponses))
    /\ WF_vars(WsConnect({"ok", "ConnectionClosed", "Other"}))
    /\ WF_vars(WsConfirm)
    /\ WF_vars(WsExtractReturns(TxResponses({1})))
    /\ WF_vars(ReconnectDelayOver)

FairSpec ==
    /\ Spec
    /\ WF_vars(ScanMetaReturns("listener", RaceMetaResponses(now), {"ok"}))
    /\ WF_vars(ScanSignersReturn("listener", RaceSignerResponses))
    /\ WF_vars(WsConnect(ConnectOutcomes))
    /\ WF_vars(WsConfirm)
    /\ WF_vars(WsExtractReturns(TxResponses(Addresses)))
    /\ WF_vars(ReconnectDelayOver)
    /\ WF_vars(PollFetchReturns)
    /\ WF_vars(PollExtractReturns(TxResponses(Addresses)))
    /\ WF_vars(PollDelayOver)

(***************************************************************************)
(* Properties.                                                             *)
(***************************************************************************)

\* C1: whatever candidates are delivered, and however often the same
\* address is delivered, the tokens table holds at most one row per address.
C1_AtMostOneTokenRow ==
    \A a \in Addresses : Cardinality(TokensAt(tokens, a)) <= 1

\* A repeated delivery met the row of the first one.
C1_Witness ==
    \E s \in Scanners :
        /\ scan[s].result = "dedup"
        /\ Cardinality(TokensAt(tokens, scan[s].token_address)) = 1

\* C2: every address has either no Token and no Signal, or exactly one
\* Token and exactly one Signal referencing it; no Signal is without Token.
C2_TokenSignalPairs ==
    /\ \A a \in Addresses :
          /\ Cardinality(TokensAt(tokens, a)) = Cardinality(SignalsAt(signals, a))
          /\ Cardinality(SignalsAt(signals, a)) <= 1
    /\ \A i \in 1..Len(signals) : TokensAt(tokens, signals[i].token_address) # {}

\* A pair is stored and a second scan of that address reached its commit.
C2_Witness ==
    \E s \in Scanners :
        /\ scan[s].result = "IntegrityError"
        /\ Cardinality(TokensAt(tokens, scan[s].token_address)) = 1
        /\ Cardinality(SignalsAt(signals, scan[s].token_address)) = 1

\* C3 (as claimed): a scan that reaches persistence after another scan
\* committed the same address ends like the dedup case: no scan ever ends
\* by raising the store's IntegrityError to its caller.
C3_ConflictNeverSurfaces ==
    \A s \in Scanners : scan[s].result # "IntegrityError"

\* C4: the count stored by a scan is the number of its signers that are
\* active tracked wallets (paused ones are not counted); a count below 2
\* writes nothing; every Signal has smart_wallet_count >= 2.
C4_Step ==
    /\ \A s \in Scanners :
         (scan[s].pc = "signers" /\ scan'[s].pc = "idle"
            /\ scan'[s].result # "cancelled") =>
           LET n == Cardinality({w \in scan'[s].signers :
                                   /\ w \in DOMAIN tracked_wallets
                                   /\ tracked_wallets[w] = "active"})
           IN /\ scan'[s].smart_wallet_count = n
              /\ (n < 2) => (tokens' = tokens /\ signals' = signals)
              /\ (signals' # signals) =>
                    /\ n >= 2
                    /\ Len(signals') = Len(signals) + 1
                    /\ signals'[Len(signals')].smart_wallet_count = n
    /\ \A i \in 1..Len(signals') : signals'[i].smart_wallet_count >= 2

C4_QuorumOfActiveWallets == [][C4_Step]_vars

\* A Signal was written for signers that include the paused wallet.
C4_Witness ==
    /\ scan["listener"].result = "signal"
    /\ 2 \in scan["listener"].signers
    /\ tracked_wallets[2] = "paused"
    /\ scan["listener"].smart_wallet_count = Cardinality(scan["listener"].signers) - 1
    /\ Len(signals) = 1

\* C5: every Signal has confidence_score = min(100, 50 + 10 * its
\* smart_wallet_count), and the score lies in [50, 100].
C5_ConfidenceScore ==
    \A i \in 1..Len(signals) :
        LET n == signals[i].smart_wallet_count
            c == signals[i].confidence_score
        IN /\ c = IF 50 + 10 * n < 100 THEN 50 + 10 * n ELSE 100
           /\ c >= 50
           /\ c <= 100

\* A Signal whose uncapped score would exceed 100.
C5_Witness ==
    \E i \in 1..Len(signals) :
        /\ signals[i].smart_wallet_count >= 6
        /\ signals[i].confidence_score = 100

\* C6: a scan whose token age (now - created_at) exceeds 600 s ends there
\* and writes nothing; one whose age is at most 600 s goes on to the signer
\* fetch.
C6_Step ==
    \A s \in Scanners :
        (scan[s].pc = "meta" /\ scan'[s].pc # "meta" /\ scan'[s].meta.ok) =>
           LET age == now - scan'[s].meta.created_at
           IN /\ (age > 600) => /\ scan'[s].pc = "idle"
                                /\ scan'[s].result = "too_old"
                                /\ tokens' = tokens
                                /\ signals' = signals
              /\ (age <= 600) => scan'[s].pc = "signers"

C6_AgeFilter == [][C6_Step]_vars

\* A token of 10 minutes and 1 second was discarded.
C6_Witness ==
    /\ scan["listener"].result = "too_old"
    /\ now - scan["listener"].meta.created_at = 601
    /\ tokens = <<>>

\* C7: when the transaction fetch of get_token_metadata times out or fails,
\* the scan ends with no metadata, the store is unchanged, the listener
\* goes on with its next message (nothing is raised), and the scanner
\* starts again only when the listener delivers a candidate.
C7_Step ==
    \A s \in Scanners :
        /\ (scan[s].pc = "meta" /\ scan'[s].pc # "meta"
              /\ scan'[s].fetch \in {"timeout", "http_error"}) =>
             /\ scan'[s].pc = "idle"
             /\ scan'[s].result = "no_metadata"
             /\ ~scan'[s].meta.ok
             /\ tokens' = tokens
             /\ signals' = signals
             /\ (s = "listener") => lpc' = "subscribed"
        /\ (scan[s].pc = "idle" /\ scan[s].result = "no_metadata"
              /\ scan'[s].pc # "idle" /\ s = "listener") =>
             lpc \in {"subscribed", "ws_extract"}

C7_MetadataFailureDropsCandidate == [][C7_Step]_vars

\* The fetch timed out and the candidate was dropped.
C7_Witness ==
    /\ scan["listener"].result = "no_metadata"
    /\ scan["listener"].fetch = "timeout"
    /\ lpc = "subscribed"
    /\ tokens = <<>>

\* C8: once in the polling state the listener task stays in it until it is
\* cancelled: it neither returns nor goes back to the streaming transport;
\* and polling is entered only from a failed connection attempt.
C8_Step ==
    /\ (lpc \in PollingPcs) => (lpc' \in PollingPcs \cup {"cancelled"})
    /\ (lpc \notin PollingPcs /\ lpc' \in PollingPcs) => lpc = "connect"

C8_PollingIsTerminal == [][C8_Step]_vars

\* Polling went through a failed request and goes on.
C8_Witness ==
    /\ lpc = "poll_fetch"
    /\ seen_signatures # {}
    /\ head = NumSigs

\* C9 (as claimed): in the polling state every signature of a fetched page
\* that is new and not errored is eventually taken up by the page loop
\* (marked seen and handed to the resolver, whose mint is then scanned),
\* unless the task is cancelled.
C9_Pending(sig) ==
    /\ lpc \in PollingPcs
    /\ sig \notin seen_signatures
    /\ \E i \in 1..Len(page) : page[i].signature = sig /\ page[i].err = None

C9_EveryNewSignatureIsTakenUp ==
    \A sig \in Signatures :
        C9_Pending(sig) ~> (sig \in seen_signatures \/ lpc = "cancelled")

\* C10: leaving the subscribed state other than by cancellation leads to
\* the reconnect delay, the delay is only left for a new connection
\* attempt, and the delay does end; the task never reaches a state other
\* than its streaming and polling states unless it is cancelled.
C10_Step ==
    /\ (lpc = "subscribed"
          /\ lpc' \notin {"subscribed", "ws_extract", "ws_scan", "cancelled"})
         => lpc' = "reconnect_sleep"
    /\ (lpc = "reconnect_sleep" /\ lpc' # lpc) => lpc' \in {"connect", "cancelled"}

C10_ReconnectAfterDisconnect ==
    /\ [][C10_Step]_vars
    /\ [](lpc \in StreamingPcs \cup PollingPcs \cup {"cancelled"})
    /\ (lpc = "reconnect_sleep") ~> (lpc \in {"connect", "cancelled"})

\* The subscription was lost after an event had been scanned.
C10_Witness ==
    /\ lpc = "reconnect_sleep"
    /\ scan["listener"].result = "signal"

\* C11 (as claimed): once a received bundle has been handled, exactly one
\* scan_new_token call was made for it if it carries a creation marker, and
\* none otherwise.
C11_Qualifies == event.markers \cap {"Create", "create", "InitializeMint"} # {}

C11_Obtained ==
    IF event.log_address # None THEN event.log_address
    ELSE IF event.signature # None THEN event.resolved ELSE None

C12_Rule(pair, current_status) ==
    IF pair = NoPair THEN current_status
    ELSE LET mc == IF pair.marketCap # 0 THEN pair.marketCap ELSE pair.fdv
         IN IF mc < 500 \/ (mc > 0 /\ pair.liquidity < 100) THEN "rugged"
            ELSE IF pair.dexId \in {"raydium", "Raydium", "meteora", "METEORA",
                                    "orca", "jupiter"} /\ mc >= 50000
            THEN "graduated"
            ELSE IF mc >= 100000 THEN "graduated"
            ELSE current_status

C12_Step ==
    (/\ ppc = "fetch" /\ ppc' = "sleep"
     /\ \A a \in Addresses : sweep'.pair_data[a].liquidity # Null) =>
       \A i \in DOMAIN tokens :
          LET pair == sweep'.pair_data[tokens[i].contract_address]
              swept == \E k \in DOMAIN sweep.active_tokens :
                          sweep.active_tokens[k].contract_address
                             = tokens[i].contract_address
          IN /\ tokens'[i].status
                  = IF swept THEN C12_Rule(pair, tokens[i].status)
                    ELSE tokens[i].status
             /\ swept /\ pair.marketCap = 400 /\ pair.liquidity = 50
                   => tokens'[i].status = "rugged"
             /\ swept /\ pair.marketCap = 60000 /\ pair.liquidity = 100
                      /\ pair.dexId = "raydium"
                   => tokens'[i].status = "graduated"
             /\ swept /\ pair.marketCap = 150000 /\ pair.liquidity = 100
                      /\ pair.dexId = "pumpfun"
                   => tokens'[i].status = "graduated"

C13_Step ==
    \A i \in DOMAIN tokens :
       tokens[i].status = "rugged" =>
          /\ tokens'[i].status = "rugged"
          /\ tokens'[i].market_cap_at_scan = tokens[i].market_cap_at_scan

C13_RuggedIsAbsorbing == [][C13_Step]_vars

\* A sweep of another token has returned with a listing of the rugged
\* token among its pairs, and the rugged token is as it was.
C13_Witness ==
    /\ ppc = "sleep"
    /\ sweep.active_tokens # <<>>
    /\ \E i \in DOMAIN tokens :
         /\ tokens[i].status = "rugged"
         /\ sweep.pair_data[tokens[i].contract_address].dexId = "Raydium"
         /\ tokens[i].market_cap_at_scan = RUGGED_MC - 100

\* C14: a token in status graduated is still graduated after every step:
\* no sweep demotes it to rugged or to bonding_curve.
C14_Step ==
    \A i \in DOMAIN tokens :
       tokens[i].status = "graduated" => tokens'[i].status = "graduated"

C14_GraduatedIsNeverDemoted == [][C14_Step]_vars

\* C15: a token older than 48 hours when a sweep begins is not among the
\* tokens of that sweep, and a sweep changes status and market cap of no
\* token outside its own, whatever pairs the provider returns.
C15_Stale(t, row) == t - row.created_at > 48 * 3600

C15_Step ==
    \A i \in DOMAIN tokens :
       C15_Stale(sweep.now, tokens[i]) =>
          /\ tokens'[i].status = tokens[i].status
          /\ tokens'[i].market_cap_at_scan = tokens[i].market_cap_at_scan

C15_StaleTokensAreFrozen ==
    /\ [](\A k \in DOMAIN sweep.active_tokens :
             ~C15_Stale(sweep.now, sweep.active_tokens[k]))
    /\ [][C15_Step]_vars

\* A sweep that began with one token stale and another fresh has returned
\* with a listing of the stale token among its pairs; the stale token is
\* still on the bonding curve with its market cap at scan.
C15_Witness ==
    /\ ppc = "sleep"
    /\ sweep.active_tokens # <<>>
    /\ \E i \in DOMAIN tokens :
         /\ C15_Stale(sweep.now, tokens[i])
         /\ sweep.pair_data[tokens[i].contract_address].dexId = "Raydium"
         /\ tokens[i].status = "bonding_curve"
         /\ tokens[i].market_cap_at_scan = 0

\* C16: the token a run takes up is first marked processing; when its
\* extraction returns, the token is done with early_buyers_found equal to
\* the number of buyers found if the extraction succeeded, and error if an
\* error occurred (the fetch failed, the response was malformed).
C16_Failed(rec) ==
    \/ rec.fetch \in {"timeout", "http_error", "not_list"}
    \/ /\ Len(rec.txs) >= 2
       /\ \E i \in 1..Len(rec.txs) : rec.txs[i].timestamp = Null

C16_Step ==
    \A r \in Runners :
       /\ run[r].pc # "extract" /\ run'[r].pc = "extract" =>
             discovered_tokens'[run'[r].dt].status = "processing"
       /\ run[r].pc = "extract" /\ run'[r].pc = "pause" =>
             LET dt == discovered_tokens'[run[r].dt]
             IN IF C16_Failed(run'[r])
                THEN dt.status = "error"
                ELSE /\ dt.status = "done"
                     /\ dt.early_buyers_found = Len(run'[r].buyers)

C16_ExtractionOutcome == [][C16_Step]_vars

\* C17: a DiscoveredToken's status only moves pending -> processing ->
\* done or error; a token in status done or error is not taken up by an
\* extraction again and its status never changes.
C17_Forward(old, new) ==
    CASE old = "pending" -> new \in {"pending", "processing"}
      [] old = "processing" -> new \in {"processing", "done", "error"}
      [] OTHER -> new = old

C17_Step ==
    /\ \A i \in DOMAIN discovered_tokens :
          C17_Forward(discovered_tokens[i].status, discovered_tokens'[i].status)
    /\ \A r \in Runners :
          run'[r].pc = "extract" /\ run'[r].dt # run[r].dt =>
             \/ run'[r].dt \notin DOMAIN discovered_tokens
             \/ discovered_tokens[run'[r].dt].status \in {"pending", "processing"}

C17_StatusOnlyMovesForward == [][C17_Step]_vars

\* C18: when an extraction has returned, each buyer carries the smallest
\* timestamp among the qualifying buys of its wallet in the response, and
\* no more buyers are returned than the requested limit.
C18_Buys(txs, w) ==
    {i \in 1..Len(txs) :
        /\ txs[i].feePayer = w
        /\ txs[i].type = "SWAP" \/ txs[i].source \in {"PUMP_FUN", "PUMP_AMM", "PUMP"}}

C18_Time(tx) == IF tx.timestamp = Null THEN 0 ELSE tx.timestamp

C18_EarliestKept(rec) ==
    \A k \in 1..Len(rec.buyers) :
       LET b == rec.buyers[k]
       IN /\ C18_Buys(rec.txs, b.wallet_address) # {}
          /\ \A i \in C18_Buys(rec.txs, b.wallet_address) :
                b.entry_timestamp <= C18_Time(rec.txs[i])
          /\ \A j \in 1..Len(rec.buyers) :
                rec.buyers[j].wallet_address = b.wallet_address => j = k

C18_EarliestBuyPerWallet ==
    \A r \in Runners :
       run[r].pc = "pause" =>
          /\ C18_EarliestKept(run[r])
          /\ Len(run[r].buyers) <= run[r].early_buyer_count

\* C19: the early_buyers table never holds two rows for the same token
\* address and wallet address.
C19_OneRowPerTokenAndWallet ==
    \A i, j \in DOMAIN early_buyers :
       /\ early_buyers[i].token_address = early_buyers[j].token_address
       /\ early_buyers[i].wallet_address = early_buyers[j].wallet_address
       => i = j

\* Both runs have extracted the same token and both found buyers.
C19_Witness ==
    /\ run["scheduler"].pc = "pause"
    /\ run["manual"].pc = "pause"
    /\ run["scheduler"].dt = run["manual"].dt
    /\ run["scheduler"].buyers # <<>>
    /\ run["manual"].buyers # <<>>
    /\ early_buyers # <<>>

\* C20: the aggregation at the end of a run gives every wallet whose
\* EarlyBuyer rows span at least 2 distinct tokens in status done exactly
\* one candidate whose token_count is that number, and creates no
\* candidate (and changes no token_count) for any other wallet.
C20_Count(w) ==
    Cardinality({k \in DOMAIN discovered_tokens' :
        /\ discovered_tokens'[k].status = "done"
        /\ \E i \in DOMAIN early_buyers :
              /\ early_buyers[i].token_id = discovered_tokens'[k].id
              /\ early_buyers[i].wallet_address = w})

C20_Rows(rows, w) == {i \in DOMAIN rows : rows[i].wallet_address = w}

C20_Step ==
    \A r \in Runners :
       run[r].pc # "idle" /\ run'[r].pc = "idle" /\ run'[r].outcome = "complete" =>
          \A w \in Wallets \cup Strangers :
             IF C20_Count(w) >= 2
             THEN /\ Cardinality(C20_Rows(smart_wallet_candidates', w)) = 1
                  /\ \A i \in C20_Rows(smart_wallet_candidates', w) :
                        smart_wallet_candidates'[i].token_count = C20_Count(w)
             ELSE /\ C20_Rows(smart_wallet_candidates', w)
                       = C20_Rows(smart_wallet_candidates, w)
                  /\ \A i \in C20_Rows(smart_wallet_candidates, w) :
                        smart_wallet_candidates'[i].token_count
                           = smart_wallet_candidates[i].token_count

C20_AggregationSelectsRepeatBuyers == [][C20_Step]_vars

\* A run is complete; one stranger bought two done tokens early and is a
\* candidate with token_count 2, the other bought one and is none.
C20_Witness ==
    /\ \E r \in Runners : run[r].outcome = "complete"
    /\ \A r \in Runners : run[r].pc = "idle"
    /\ TokenCount(NumWallets + 1, early_buyers, discovered_tokens) = 2
    /\ TokenCount(NumWallets + 2, early_buyers, discovered_tokens) = 1
    /\ \E i \in DOMAIN smart_wallet_candidates :
          /\ smart_wallet_candidates[i].wallet_address = NumWallets + 1
          /\ smart_wallet_candidates[i].token_count = 2
    /\ C20_Rows(smart_wallet_candidates, NumWallets + 2) = {}

\* C21: promotion is idempotent.  In every reachable store, each of the
\* three promotions (auto_promote_candidates, promote-all, promote of one
\* address) applied a second time changes nothing and inserts nothing; it
\* inserts a TrackedWallet only for an address that has none, and leaves
\* every TrackedWallet that existed as it was.  A step that promotes a
\* candidate keeps every existing TrackedWallet and leaves the candidate's
\* address tracked.
C21_Once(res, wallets) ==
    /\ res.inserts \cap DOMAIN wallets = {}
    /\ \A w \in DOMAIN wallets : res.wallets[w] = wallets[w]
    /\ \A i \in DOMAIN res.candidates :
          res.candidates[i].is_promoted =>
             res.candidates[i].wallet_address \in DOMAIN res.wallets

C21_Twice(first, second) ==
    /\ second.candidates = first.candidates
    /\ second.wallets = first.wallets
    /\ second.inserts = {}

C21_Idempotent ==
    LET c == smart_wallet_candidates
        w == tracked_wallets
        auto == auto_promote_candidates(c, w)
        all == promote_all_candidates(c, w)
    IN /\ C21_Once(auto, w)
       /\ C21_Twice(auto, auto_promote_candidates(auto.candidates, auto.wallets))
       /\ C21_Once(all, w)
       /\ C21_Twice(all, promote_all_candidates(all.candidates, all.wallets))
       /\ \A a \in Wallets \cup Strangers :
             LET one == promote_candidate(c, w, a)
             IN /\ C21_Once(one, w)
                /\ C21_Twice(one, promote_candidate(one.candidates,
                                                    one.wallets, a))

C21_Step ==
    (\E i \in DOMAIN smart_wallet_candidates' :
        /\ smart_wallet_candidates'[i].is_promoted
        /\ i \in DOMAIN smart_wallet_candidates =>
              ~smart_wallet_candidates[i].is_promoted)
    => /\ \A w \in DOMAIN tracked_wallets :
             /\ w \in DOMAIN tracked_wallets'
             /\ tracked_wallets'[w] = tracked_wallets[w]
       /\ \A i \in DOMAIN smart_wallet_candidates' :
             smart_wallet_candidates'[i].is_promoted =>
                smart_wallet_candidates'[i].wallet_address
                   \in DOMAIN tracked_wallets'

C21_PromotionIsIdempotent == []C21_Idempotent /\ [][C21_Step]_vars

\* Two candidates are promoted: wallet 1, which was on the roster before,
\* and a stranger, which was inserted as an active TrackedWallet.
C21_Witness ==
    /\ \E i \in DOMAIN smart_wallet_candidates :
          /\ smart_wallet_candidates[i].wallet_address = 1
          /\ smart_wallet_candidates[i].is_promoted
    /\ \E i \in DOMAIN smart_wallet_candidates :
          /\ smart_wallet_candidates[i].wallet_address = NumWallets + 1
          /\ smart_wallet_candidates[i].is_promoted
    /\ NumWallets + 1 \in DOMAIN tracked_wallets
    /\ tracked_wallets[NumWallets + 1] = "active"

\* C22: a candidate that is promoted stays a promoted candidate of the
\* same wallet in every later step (aggregation upsert, promotion, run).
C22_Step ==
    \A i \in DOMAIN smart_wallet_candidates :
       smart_wallet_candidates[i].is_promoted =>
          /\ i \in DOMAIN smart_wallet_candidates'
          /\ smart_wallet_candidates'[i].is_promoted
          /\ smart_wallet_candidates'[i].wallet_address
                = smart_wallet_candidates[i].wallet_address

C22_PromotedStaysPromoted == [][C22_Step]_vars

\* A run is at the end of its token loop, its aggregation next, over a
\* store with a promoted candidate that the aggregation selects again.
C22_Witness ==
    /\ run["manual"].pc = "pause"
    /\ run["manual"].pending = <<>>
    /\ \E i \in DOMAIN smart_wallet_candidates :
          /\ smart_wallet_candidates[i].is_promoted
          /\ TokenCount(smart_wallet_candidates[i].wallet_address,
                        early_buyers, discovered_tokens) >= MIN_APPEARANCES

\* C23: a run whose winner search returned (with or without winners)
\* goes on to the extraction of every token in status pending or
\* processing: it does not return after the search while such a token is
\* left and no other run is at work.
C23_Step ==
    \A r \in Runners :
       /\ run[r].pc = "search"
       /\ run'[r].pc = "idle"
       /\ run'[r].outcome # "raised"
       /\ \A q \in Runners \ {r} : run[q].pc \in {"idle", "cancelled"}
       => PendingIds(discovered_tokens') = <<>>

C23_RunExtractsLeftTokens == [][C23_Step]_vars

\* C24: the scheduler's first run, and only it, uses the minimum gain 100;
\* every later run uses 200.  A run starts only out of the scheduler's
\* sleep, and whenever a run of the scheduler has ended, whatever its
\* outcome (raised included), the scheduler is in its sleep again and the
\* next run can start.
C24_Step ==
    /\ run["scheduler"].pc = "idle" /\ run'["scheduler"].pc # "idle"
       /\ run'["scheduler"].pc # "cancelled"
       => /\ run'["scheduler"].pc = "search"
          /\ run'["scheduler"].min_gain =
                (IF seeded THEN MIN_GAIN_MULTIPLE ELSE FIRST_RUN_MIN_GAIN)
          /\ run'["scheduler"].auto_promote
          /\ seeded'
    /\ seeded => seeded'
    /\ run["scheduler"].pc \notin {"idle", "cancelled"}
       /\ run'["scheduler"].pc = "idle"
       => /\ run'["scheduler"].outcome \in {"complete", "no_winners", "raised"}
          /\ seeded'

C24_Awake ==
    run["scheduler"].pc = "idle" => ENABLED SchedulerWakes

C24_SchedulerRunsLowThenStandard == []C24_Awake /\ [][C24_Step]_vars

\* A later run of the scheduler is searching at the standard threshold
\* after a run of the scheduler that raised (it left a token in
\* processing; no manual run was ever started).
C24_Witness ==
    /\ run["scheduler"].pc = "search"
    /\ run["scheduler"].min_gain = MIN_GAIN_MULTIPLE
    /\ run["manual"].pc = "idle"
    /\ run["manual"].outcome = "none"
    /\ \E i \in DOMAIN discovered_tokens :
          discovered_tokens[i].status = "processing"

\* C25: every discovered_tokens row has gain_multiple (kept in tenths)
\* equal to current_market_cap / launch_market_cap rounded to one decimal.
C25_GainIsCurrentOverLaunch ==
    \A i \in DOMAIN discovered_tokens :
       LET dt == discovered_tokens[i]
           diff == dt.gain_multiple * dt.launch_market_cap
                      - 10 * dt.current_market_cap
       IN /\ 2 * diff <= dt.launch_market_cap
          /\ -(2 * diff) <= dt.launch_market_cap

C26_Returned(pairs, pair, min_gain, cutoff) ==
    LET winners == discover_winning_tokens(pairs, min_gain, cutoff)
    IN \E j \in DOMAIN winners : winners[j].address = pair.address

C26_GainAtLeast(pair, min_gain) ==
    IF PairMc(pair) > 0 THEN PairMc(pair) >= min_gain * launch_mc(pair)
    ELSE min_gain <= 0

\* C26 as stated: at the search of a run, for every list of fetched pairs,
\* a deduplicated pair is returned as a winner exactly when it was created
\* at or after the cutoff and its estimated gain is at least the minimum.
C26_WinnerIffInWindowAndGain ==
    run["manual"].pc = "search" =>
       \A pairs \in PairLists(run["manual"].cutoff) :
          \A pair \in {BestPerToken(pairs, <<>>)[i] :
                        i \in DOMAIN BestPerToken(pairs, <<>>)} :
             C26_Returned(pairs, pair, run["manual"].min_gain,
                          run["manual"].cutoff)
             <=> /\ pair.pairCreatedAt # 0
                 /\ pair.pairCreatedAt >= run["manual"].cutoff
                 /\ C26_GainAtLeast(pair, run["manual"].min_gain)

\* C26 amended: a deduplicated pair is returned as a winner exactly when
\* its creation time is missing or not before the cutoff, and its
\* estimated gain is at least the minimum.
C26_WinnerIffNotTooOldAndGain ==
    run["manual"].pc = "search" =>
       \A pairs \in PairLists(run["manual"].cutoff) :
          \A pair \in {BestPerToken(pairs, <<>>)[i] :
                        i \in DOMAIN BestPerToken(pairs, <<>>)} :
             C26_Returned(pairs, pair, run["manual"].min_gain,
                          run["manual"].cutoff)
             <=> /\ \/ pair.pairCreatedAt = 0
                    \/ pair.pairCreatedAt >= run["manual"].cutoff
                 /\ C26_GainAtLeast(pair, run["manual"].min_gain)

\* A winner without creation time was returned and stored by a run with a
\* positive cutoff, beside one created after the cutoff.
C26_Witness ==
    /\ run["manual"].pc # "idle"
    /\ run["manual"].cutoff > 0
    /\ \E i \in DOMAIN discovered_tokens :
          discovered_tokens[i].pair_created_at = 0
    /\ \E i \in DOMAIN discovered_tokens :
          discovered_tokens[i].pair_created_at > run["manual"].cutoff

C27_OneRowPerAddress ==
    \A i, j \in DOMAIN discovered_tokens :
       discovered_tokens[i].address = discovered_tokens[j].address => i = j

\* A step of the run from its search on: rows are only added at the end;
\* a row that existed differs at most in current_market_cap and
\* gain_multiple (and in being taken up for extraction, from pending, by
\* the same step); a new row is pending (or just taken up) with no early
\* buyers and peak equal to current market cap.
C27_Step ==
    run["manual"].pc = "search" =>
       /\ Len(discovered_tokens') >= Len(discovered_tokens)
       /\ \A i \in DOMAIN discovered_tokens :
             LET old == discovered_tokens[i]
                 new == discovered_tokens'[i]
             IN /\ [new EXCEPT !.current_market_cap = old.current_market_cap,
                               !.gain_multiple = old.gain_multiple,
                               !.status = old.status] = old
                /\ \/ new.status = old.status
                   \/ /\ old.status = "pending"
                      /\ new.status = "processing"
                      /\ run'["manual"].dt = old.id
       /\ \A i \in DOMAIN discovered_tokens' \ DOMAIN discovered_tokens :
             LET new == discovered_tokens'[i]
             IN /\ new.status \in {"pending", "processing"}
                /\ new.status = "processing" => run'["manual"].dt = new.id
                /\ new.early_buyers_found = 0
                /\ new.peak_market_cap = new.current_market_cap
                /\ new.id = i

\* C27: persisting the winners keeps one row per token address; a first
\* sight inserts a pending row, a repeat sight changes only the row's
\* current market cap and gain.
C27_PersistKeepsOneRowPerAddress ==
    []C27_OneRowPerAddress /\ [][C27_Step]_vars

\* A token whose extraction was done has been seen again with another
\* market cap, in the run that first saw the second token.
C27_Witness ==
    /\ Len(discovered_tokens) = 2
    /\ discovered_tokens[1].status = "done"
    /\ discovered_tokens[1].current_market_cap
          # discovered_tokens[1].peak_market_cap
    /\ discovered_tokens[2].status = "processing"
    /\ run["manual"].pc = "extract"

\* C28: in the polling state, when the pass over a page ends after a
\* signature was resolved or scanned (the listener goes on to the sleep
\* before the next poll), every signature that remained on the page has
\* been taken up in that pass.
C28_Step ==
    (lpc \in {"poll_extract", "poll_scan"} /\ lpc' # "cancelled") =>
       /\ lpc' \in PollingPcs
       /\ lpc' = "poll_sleep" =>
             \A k \in DOMAIN page : page[k].signature \in seen_signatures'

C28_FailureConfinedToSignature == [][C28_Step]_vars

C29_RowsOf(rows, dt) ==
    {i \in DOMAIN rows : rows[i].token_address = dt.address}

\* The EarlyBuyer rows of a token are committed together with its status
\* done, and a cancellation changes no table: the token whose extraction
\* was awaited keeps the status it had, without new rows.
C29_Step ==
    /\ \A i \in DOMAIN discovered_tokens :
          C29_RowsOf(early_buyers', discovered_tokens[i])
             # C29_RowsOf(early_buyers, discovered_tokens[i])
          => discovered_tokens'[i].status = "done"
    /\ (run["scheduler"].pc # "cancelled" /\ run'["scheduler"].pc = "cancelled")
       => /\ early_buyers' = early_buyers
          /\ discovered_tokens' = discovered_tokens
          /\ smart_wallet_candidates' = smart_wallet_candidates
          /\ tracked_wallets' = tracked_wallets

\* C29: cancelling a discovery run at any suspension point leaves no
\* half-committed step: extracted tokens stay done with their EarlyBuyer
\* rows, and the token being extracted has all its new rows with status
\* done or none with status processing.
C29_CancelLeavesNoHalfStep == [][C29_Step]_vars

\* The scheduler's run was cancelled (no manual run was started) with one
\* token done together with its rows and another left processing without
\* any row.
C29_Witness ==
    /\ run["scheduler"].pc = "cancelled"
    /\ run["manual"].pc = "idle"
    /\ run["manual"].outcome = "none"
    /\ \E i, j \in DOMAIN discovered_tokens :
          /\ discovered_tokens[i].status = "done"
          /\ C29_RowsOf(early_buyers, discovered_tokens[i]) # {}
          /\ discovered_tokens[j].status = "processing"
          /\ C29_RowsOf(early_buyers, discovered_tokens[j]) = {}

C30_SameMessage(ev1, ev2) ==
    /\ ev1.markers = ev2.markers
    /\ ev1.log_address = ev2.log_address
    /\ ev1.signature = ev2.signature

\* While the subscription can deliver the next message no scan of the
\* listener is in flight.
C30_ScanCompleteBeforeNext ==
    lpc = "subscribed" => scan["listener"].pc = "idle"

\* A message is taken from the subscription only in the subscribed state;
\* while its mint is resolved or its candidate scanned the locals stay
\* those of that message; and the scan of a candidate, whether it returns
\* or raises, leads back to the subscribed state.
C30_Step ==
    /\ (event' # event /\ lpc # "subscribed")
       => lpc = "ws_extract" /\ C30_SameMessage(event, event')
    /\ (lpc = "ws_scan" /\ lpc' # "cancelled")
       => /\ lpc' \in {"ws_scan", "subscribed"}
          /\ scan'["listener"].pc = "idle" => lpc' = "subscribed"
          /\ event' = event

\* C30: in the subscribed state events are processed in arrival order: the
\* scan of one event's candidate completes before the next message is
\* processed, and an error while processing a message does not end the
\* subscription.
C30_ArrivalOrder == []C30_ScanCompleteBeforeNext /\ [][C30_Step]_vars

\* The scan of a forwarded candidate raised and the listener is back in
\* the subscribed state.
C30_Witness ==
    /\ lpc = "subscribed"
    /\ event.calls = 1
    /\ scan["listener"].pc = "idle"
    /\ scan["listener"].result = "IntegrityError"

\* C31: in the polling state, at the end of every poll iteration (the
\* listener is at the sleep before the next poll) the seen set holds at
\* most 5000 signatures.
C31_SeenSetBounded ==
    lpc = "poll_sleep" => Cardinality(seen_signatures) + seen_old <= SEEN_CAP

\* C32: when the seen set is truncated, no signature seen in an earlier
\* poll (an old signature) is kept while a signature first seen after it
\* (a listed one) is dropped.
C32_Step ==
    Cardinality(seen_signatures') + seen_old'
       < Cardinality(seen_signatures) + seen_old
    => ~ /\ seen_signatures \ seen_signatures' # {}
         /\ seen_old' > 0

C32_MostRecentRetained == [][C32_Step]_vars

\* The listener starts to resolve a signature: it arrives at the await of
\* the resolver with a signature it was not resolving before.
C33_ResolutionStarts ==
    lpc' = "poll_extract" /\ (lpc # "poll_extract" \/ cur' # cur)

\* C33: in the polling state the signature handed to the resolver is not
\* errored and was not in the seen set, and it is in the seen set from
\* then on; a candidate is forwarded to the analyzer only for the
\* signature just resolved.
C33_Step ==
    /\ C33_ResolutionStarts
       => /\ ChainEntry(cur').err = None
          /\ cur' \notin seen_signatures
          /\ cur' \in seen_signatures'
    /\ lpc' = "poll_scan" /\ lpc # "poll_scan" => lpc = "poll_extract"

C33_ErroredAndSeenAreSkipped == [][C33_Step]_vars

\* The second page listed the errored signature 3 again, already seen:
\* the pass resolved signature 4 only and ended.
C33_Witness ==
    /\ lpc = "poll_sleep"
    /\ head = 4
    /\ seen_signatures = {2, 3, 4}

C34_Qualifies(markers) ==
    markers \cap {"Create", "create", "CREATE", "InitializeMint"} # {}

\* C34: when a message is taken from the subscription, its bundle is
\* followed up as a creation event (its signature is resolved or a
\* candidate is forwarded) only if one of its lines has the marker
\* "Create" in some letter case or "InitializeMint", and always if so and
\* the bundle has an address in its text or a signature.
C34_Step ==
    (lpc = "subscribed" /\ event' # event) =>
       LET followed == lpc' \in {"ws_extract", "ws_scan"} \/ event'.calls > 0
       IN /\ followed => C34_Qualifies(event'.markers)
          /\ ( /\ C34_Qualifies(event'.markers)
               /\ event'.log_address # None \/ event'.signature # None )
             => followed

C34_CreationEventIffMarker == [][C34_Step]_vars

C35_MintOf(ixs) ==
    LET at == {i \in DOMAIN ixs : ixs[i].type = "initializeMint"
                                     /\ ixs[i].mint # None}
    IN IF at = {} THEN None
       ELSE ixs[CHOOSE i \in at : \A j \in at : i <= j].mint

\* The resolution as described, with the account list used from MinKeys
\* entries on.
C35_Resolution(resp, MinKeys) ==
    CASE resp.kind # "result" -> None
      [] OTHER ->
         IF C35_MintOf(resp.inner) # None THEN C35_MintOf(resp.inner)
         ELSE IF C35_MintOf(resp.top) # None THEN C35_MintOf(resp.top)
         ELSE IF /\ Len(resp.accountKeys) >= MinKeys
                 /\ resp.accountKeys[2] # PUMP_FUN_PROGRAM_ID
              THEN resp.accountKeys[2]
              ELSE None

\* The listener goes on after the resolver returned: nothing is raised.
C35_Step ==
    /\ (lpc = "ws_extract" /\ lpc' # "cancelled")
       => lpc' \in {"ws_extract", "ws_scan", "subscribed"}
    /\ (lpc = "poll_extract" /\ lpc' # "cancelled") => lpc' \in PollingPcs

\* C35 as stated: while the listener awaits the resolver, whatever the
\* provider answers, the result is the mint of the first initialize-mint
\* instruction among the inner, else the top-level instructions, else the
\* account at index 1 unless it is the launch program; none otherwise.
C35_ResolutionAsStated ==
    lpc \in {"ws_extract", "poll_extract"} =>
       \A resp \in TxResponses(Addresses) :
          _extract_token_from_tx(resp) = C35_Resolution(resp, 2)

\* C35 amended: the account at index 1 is used only when the account list
\* has at least three entries.
C35_ResolutionFromThreeKeys ==
    lpc \in {"ws_extract", "poll_extract"} =>
       \A resp \in TxResponses(Addresses) :
          _extract_token_from_tx(resp) = C35_Resolution(resp, 3)

C35_SignatureResolution == []C35_ResolutionFromThreeKeys /\ [][C35_Step]_vars

\* A bundle without address in its text was resolved from its signature
\* and its candidate is being scanned.
C35_Witness ==
    /\ lpc = "ws_scan"
    /\ event.log_address = None
    /\ event.resolved # None
    /\ event.calls = 1

\* C36: in a sweep that completes, a swept token whose pair reports a
\* positive market cap gets that value as its market cap, whether or not
\* its status changes; a swept token without pair data keeps market cap and
\* status; a token that is not swept keeps both.
C36_Step ==
    (/\ ppc = "fetch" /\ ppc' = "sleep"
     /\ \A a \in Addresses : sweep'.pair_data[a].liquidity # Null) =>
       \A i \in DOMAIN tokens :
          LET pair == sweep'.pair_data[tokens[i].contract_address]
              swept == \E k \in DOMAIN sweep.active_tokens :
                          sweep.active_tokens[k].contract_address
                             = tokens[i].contract_address
          IN /\ (swept /\ pair # NoPair /\ pair.marketCap > 0)
                => tokens'[i].market_cap_at_scan = pair.marketCap
             /\ (~swept \/ pair = NoPair)
                => /\ tokens'[i].market_cap_at_scan = tokens[i].market_cap_at_scan
                   /\ tokens'[i].status = tokens[i].status

C37_Discards == {"no_metadata", "too_old", "few_matches"}

\* C37: a scan that ends by discarding its candidate (metadata failure,
\* age filter, match-count filter) writes no Token and no Signal; a scan
\* ends as the dedup case only for an address that has a Token row; and a
\* new delivery of an address whose scan was discarded, still without
\* Token row, starts the full scan again.
C37_Step ==
    \A s \in Scanners :
       scan'[s] # scan[s] =>
          /\ (scan'[s].pc = "idle" /\ scan'[s].result \in C37_Discards)
             => /\ tokens' = tokens
                /\ signals' = signals
                /\ TokensAt(tokens', scan'[s].token_address) = {}
                      => SignalsAt(signals', scan'[s].token_address) = {}
          /\ (scan'[s].pc = "idle" /\ scan'[s].result = "dedup")
             => TokensAt(tokens, scan'[s].token_address) # {}
          /\ ( /\ scan[s].pc = "idle"
               /\ scan[s].result \in C37_Discards
               /\ scan'[s].token_address = scan[s].token_address
               /\ TokensAt(tokens, scan[s].token_address) = {} )
             => scan'[s].pc = "meta"

C37_DiscardLeavesNoRecord == [][C37_Step]_vars

\* The listener's scan of mint 1 was discarded by the match-count filter
\* and the peer's scan of the same mint has produced the Token and Signal.
C37_Witness ==
    /\ scan["listener"].pc = "idle"
    /\ scan["listener"].token_address = 1
    /\ scan["listener"].result = "few_matches"
    /\ scan["peer"].pc = "idle"
    /\ scan["peer"].token_address = 1
    /\ scan["peer"].result = "signal"
    /\ TokensAt(tokens, 1) # {}
    /\ SignalsAt(signals, 1) # {}

\* The promoted candidates whose TrackedWallet row is missing: the row was
\* removed after the promotion.
C38_Removed(candidates, wallets) ==
    {candidates[i].wallet_address : i \in {i \in DOMAIN candidates :
        /\ candidates[i].is_promoted
        /\ candidates[i].wallet_address \notin DOMAIN wallets}}

\* C38: no promotion and no discovery run re-creates the TrackedWallet row
\* of a promoted candidate after its removal, and the candidate stays
\* promoted.
C38_Step ==
    C38_Removed(smart_wallet_candidates, tracked_wallets)
       \subseteq C38_Removed(smart_wallet_candidates', tracked_wallets')

C38_RemovedWalletStaysRemoved == [][C38_Step]_vars

\* The wallet that a promotion had added was removed; every candidate is
\* promoted and the scheduler's run has completed.
C38_Witness ==
    /\ NumWallets + 1 \in C38_Removed(smart_wallet_candidates, tracked_wallets)
    /\ Len(smart_wallet_candidates) >= 2
    /\ \A i \in DOMAIN smart_wallet_candidates :
          smart_wallet_candidates[i].is_promoted
    /\ run["scheduler"].pc = "idle"
    /\ run["scheduler"].outcome = "complete"

\* The committed EarlyBuyer rows of the token at an address.
C39_RowsOf(ebs, address) ==
    {i \in DOMAIN ebs : ebs[i].token_address = address}

C39_Waiting(dt) == dt.status \in {"pending", "processing"}

\* A token in status pending or processing has no committed EarlyBuyer row.
C39_NoRowsWhileWaiting ==
    \A i \in DOMAIN discovered_tokens :
       C39_Waiting(discovered_tokens[i]) =>
          C39_RowsOf(early_buyers, discovered_tokens[i].address) = {}

\* The step that commits EarlyBuyer rows of a token finds it in processing
\* and leaves it in another status than pending or processing.
C39_Step ==
    \A i \in DOMAIN discovered_tokens :
       LET address == discovered_tokens[i].address
       IN C39_RowsOf(early_buyers', address) # C39_RowsOf(early_buyers, address)
             => /\ discovered_tokens[i].status = "processing"
                /\ ~C39_Waiting(discovered_tokens'[i])

\* C39: with a single discovery run active, a DiscoveredToken in status
\* pending or processing has no committed EarlyBuyer rows; the rows of a
\* token are committed together with its move out of processing.
C39_BuyersVisibleWithStatus == []C39_NoRowsWhileWaiting /\ [][C39_Step]_vars

\* One token is done with its buyers committed while the next one is in
\* processing without any.
C39_Witness ==
    /\ run["scheduler"].pc = "extract"
    /\ \E i, j \in DOMAIN discovered_tokens :
          /\ discovered_tokens[i].status = "done"
          /\ C39_RowsOf(early_buyers, discovered_tokens[i].address) # {}
          /\ discovered_tokens[j].status = "processing"
          /\ C39_RowsOf(early_buyers, discovered_tokens[j].address) = {}

\* C40: a Token whose status is not bonding_curve keeps its row and never
\* gets the status bonding_curve again, and a step of the Analyzer leaves
\* every existing Token row as it is.
C40_Step ==
    /\ Len(tokens') >= Len(tokens)
    /\ \A i \in DOMAIN tokens :
          /\ tokens'[i].contract_address = tokens[i].contract_address
          /\ tokens[i].status # "bonding_curve"
                => tokens'[i].status # "bonding_curve"
          /\ (\E s \in Scanners : scan'[s] # scan[s])
                => tokens'[i] = tokens[i]

C40_NeverBackToBondingCurve == [][C40_Step]_vars

\* A sweep loaded a graduated token and fetched for it a pair that meets
\* neither the rugged nor the graduated thresholds: the token is still
\* graduated after the sweep.
C40_Witness ==
    /\ ppc = "sleep"
    /\ Len(tokens) >= 1
    /\ tokens[1].status = "graduated"
    /\ \E k \in DOMAIN sweep.active_tokens :
          LET pair == sweep.pair_data[sweep.active_tokens[k].contract_address]
          IN /\ sweep.active_tokens[k].contract_address
                   = tokens[1].contract_address
             /\ sweep.active_tokens[k].status = "graduated"
             /\ pair # NoPair
             /\ pair.liquidity # Null
             /\ pair.liquidity >= RUGGED_LIQUIDITY
             /\ PairMc(pair) >= RUGGED_MC
             /\ PairMc(pair) < GRADUATED_MC
====
